---- MODULE Spec2Model ----
(***************************************************************************)
(* Verification model of the HTTP execution core of the Strava client:     *)
(* withRetry (http/retry.ts), RateLimiter (http/rate-limiter.ts),          *)
(* RequestDeduplicator (http/deduplication.ts), request/makeRequest        *)
(* (http/request.ts) and OAuthManager (auth/oauth.ts).                     *)
(*                                                                         *)
(* Optional JavaScript values (T | undefined, T | null) are modelled as    *)
(* sets with at most one element: {} is undefined/null, {x} is x.          *)
(***************************************************************************)
EXTENDS Integers, Sequences, FiniteSets, TLC

VARIABLES
    now,          \* Date.now(), in milliseconds
    \* ---- withRetry, one execution per call id
    rconfig,      \* retryConfig = {...DEFAULT_RETRY_CONFIG, ...config}
    rpc,          \* position of each withRetry execution
    attempt,      \* the loop variable `attempt`
    lastError,    \* the local `lastError`
    outcome,      \* what the execution returned or raised
    delays,       \* the delays passed to sleep(), in order
    log,          \* the settled invocations of fn(), in order
    wakeAt,       \* when the pending sleep() timer is due
    \* ---- OAuthManager over a MemoryTokenStore, one call per process
    store,        \* MemoryTokenStore.token
    issued,       \* number of tokens the provider has issued so far
    oop,          \* the OAuthManager method each process runs
    opc,          \* position of each process in its method
    otoken,       \* the local `token` read from the store
    ocheckedAt,   \* Date.now() when the call resumed after tokenStore.get()
    oresult,      \* the value returned (a token or null) or the error raised
    exchanges,    \* refresh exchanges (fetch calls) issued by each call
    owrites,      \* tokenStore.set()/clear() invocations of each call, in order
    oresponse,    \* per call: the TokenData its refreshAccessToken call returned
    \* ---- RateLimiter
    strategy,           \* RateLimiter.strategy
    shortTermLimit,     \* RateLimiter.shortTermLimit
    dailyLimit,         \* RateLimiter.dailyLimit
    shortTermRequests,  \* RateLimiter.shortTermRequests
    dailyRequests,      \* RateLimiter.dailyRequests
    queue,              \* RateLimiter.queue
    \* ---- makeRequest, one activation at a time per call id
    mpc,          \* position of the call's current makeRequest activation (or of a
                  \* direct caller of waitForAvailability)
    response,     \* the `response` whose body the activation is reading
    netCalls,     \* fetch() calls issued by each call
    pollAt,       \* when the 1 s poll timer of the "wait" strategy is due
    arrivals,     \* the calls in the order they invoked waitForAvailability
    admissions,   \* the calls in the order their waitForAvailability() promise resolved
    reported,     \* the limit/usage headers last fed to updateFromHeaders
    enqueued,     \* the calls in the order waitForAvailability queued them
    drained,      \* the calls in the order processQueue resolved them
    lastInfo,     \* what the latest getRateLimitInfo() returned, and when (marked per step)
    lastCan,      \* what the latest canMakeRequest() returned, and when (marked per step)
    refusedWith,  \* per call: the error its waitForAvailability() threw
    ticks,        \* number of times the clock was advanced
    \* ---- RequestDeduplicator
    cache,            \* RequestDeduplicator.cache: key -> entry
    cleanupInterval,  \* whether cleanupInterval holds a timer (is not null)
    nextSweep,        \* when that interval timer is next due
    handle,           \* per caller: what its getOrCreate call was given, did and returned
    factoryLog,       \* the factory() invocations, in order
    destroys,         \* number of destroy() calls so far
    \* ---- PaginatedIterator and listAll over one fetchPage
    perPage,      \* the perPage both were constructed with
    iterator,     \* PaginatedIterator: currentPage, currentItems, hasMore
    ipc,          \* the next() calls suspended on fetchPage, in call order
    ilog,         \* the pages next() requested, what fetchPage returned, the calls that rejected, what next() returned, the resets
    generator,    \* listAll: page, hasMore, items and the position in `for ... of items`
    gpc,          \* position of the generator body
    glog          \* the pages listAll requested, what fetchPage returned, what it yielded

retryVars == <<rconfig, rpc, attempt, lastError, outcome, delays, log, wakeAt>>
authVars ==
    <<store, issued, oop, opc, otoken, ocheckedAt, oresult, exchanges, owrites,
      oresponse>>
limVars == <<strategy, shortTermLimit, dailyLimit, shortTermRequests, dailyRequests, queue>>
mrVars ==
    <<mpc, response, netCalls, pollAt, arrivals, admissions, reported, enqueued, drained,
      lastInfo, lastCan, refusedWith>>
dedupVars == <<cache, cleanupInterval, nextSweep, handle, factoryLog, destroys>>
pgVars == <<perPage, iterator, ipc, ilog, generator, gpc, glog>>
vars == <<now, ticks, retryVars, authVars, limVars, mrVars, dedupVars, pgVars>>

(***************************************************************************)
(* Bounds of the model.                                                    *)
(***************************************************************************)
MaxCalls == 3
MaxAttemptsBound == 3
MaxAuthCalls == 2
MaxAuthTime == 1000
MaxTicks == 2
MaxRequesters == 2
MaxRecorded == 2
MaxDestroys == 2
MaxPages == 3
MaxPageLen == 2
MaxNextCalls == 4
MaxResets == 1

Calls == 1..MaxCalls

Undefined == {}
Some(x) == {x}
Val(o) == CHOOSE x \in o : TRUE
Opt(S) == {Undefined} \cup {{x} : x \in S}
Min(a, b) == IF a <= b THEN a ELSE b
Max(a, b) == IF a >= b THEN a ELSE b

RECURSIVE Pow(_, _)
Pow(b, e) == IF e <= 0 THEN 1 ELSE b * Pow(b, e - 1)

(***************************************************************************)
(* withRetry                                                               *)
(***************************************************************************)
DefaultRetryableStatusCodes == {429, 500, 502, 503, 504}

DEFAULT_RETRY_CONFIG ==
    [maxAttempts |-> 3, initialDelay |-> 1000, maxDelay |-> 10000,
     backoffFactor |-> 2, retryableStatusCodes |-> DefaultRetryableStatusCodes]

\* The retry configurations explored.
RetryConfigs ==
    [maxAttempts : 0..MaxAttemptsBound,
     initialDelay : {1000},
     maxDelay : {1500, 10000},
     backoffFactor : {0, 2},
     retryableStatusCodes : {DefaultRetryableStatusCodes, {404, 503}}]

\* Status codes and retry-after hints carried by the failures explored.
StatusCodes == {404, 429, 503}
HintValues == {-1, 0, 2, 20}

\* A settled invocation of fn(): a value, or a failure with its optional
\* statusCode and the optional hint getRetryAfter draws from it; n is the
\* ordinal of the invocation, which stands for the identity of the object.
\* A value returned by makeRequest is recorded with the body it was made
\* from.
Failure(sc, ra, n) ==
    [ok |-> FALSE, statusCode |-> sc, retryAfter |-> ra, n |-> n,
     body |-> Undefined, value |-> Undefined]
Success(n) ==
    [ok |-> TRUE, statusCode |-> Undefined, retryAfter |-> Undefined, n |-> n,
     body |-> Undefined, value |-> Undefined]
NoOutcome == [kind |-> "none", value |-> Undefined]

calculateDelay_uncapped(att, config, retryAfter) ==
    IF retryAfter # Undefined
    THEN Val(retryAfter) * 1000
    ELSE config.initialDelay * Pow(config.backoffFactor, att - 1)

calculateDelay_constant(att, config, retryAfter) ==
    IF retryAfter # Undefined
    THEN Min(Val(retryAfter) * 1000, config.maxDelay)
    ELSE Min(config.initialDelay, config.maxDelay)

calculateDelay(att, config, retryAfter) ==
    IF retryAfter # Undefined
    THEN Min(Val(retryAfter) * 1000, config.maxDelay)
    ELSE Min(config.initialDelay * Pow(config.backoffFactor, att - 1), config.maxDelay)

isRetryable_ignoresCodes(statusCode, config) == TRUE

isRetryable_onlyListed(statusCode, config) ==
    statusCode # Undefined /\ Val(statusCode) \in config.retryableStatusCodes

isRetryable(statusCode, config) ==
    IF statusCode = Undefined THEN TRUE
    ELSE Val(statusCode) \in config.retryableStatusCodes

\* `throw x` out of withRetry: the promise rejects with x.
Raise(c, x) ==
    /\ rpc' = [rpc EXCEPT ![c] = "thrown"]
    /\ outcome' = [outcome EXCEPT ![c] = [kind |-> "thrown", value |-> x]]

\* Loop head `attempt <= maxAttempts`, entered with loop variable a: either
\* fn() is invoked, or the loop is left and `throw lastError` runs.
LoopHead(c, a, lastErr) ==
    /\ attempt' = [attempt EXCEPT ![c] = a]
    /\ IF a <= rconfig.maxAttempts
       THEN /\ rpc' = [rpc EXCEPT ![c] = "running"]
            /\ UNCHANGED outcome
       ELSE Raise(c, lastErr)

\* withRetry is called: the first evaluation of the loop head.
RetryStart(c) ==
    /\ rpc[c] = "idle"
    /\ LoopHead(c, 1, lastError[c])
    /\ UNCHANGED <<now, rconfig, lastError, delays, log, wakeAt>>

\* `return await fn()` with fn() fulfilled.
ReturnBlock(c, res) ==
    /\ rpc' = [rpc EXCEPT ![c] = "returned"]
    /\ outcome' = [outcome EXCEPT ![c] = [kind |-> "returned", value |-> Some(res)]]
    /\ log' = [log EXCEPT ![c] = Append(@, res)]
    /\ UNCHANGED <<rconfig, attempt, lastError, delays, wakeAt>>

CatchBlock_throwsFirstError(c, err, retryAfter) ==
    /\ log' = [log EXCEPT ![c] = Append(@, err)]
    /\ lastError' = [lastError EXCEPT ![c] = IF @ = Undefined THEN Some(err) ELSE @]
    /\ UNCHANGED <<rconfig, attempt>>
    /\ IF attempt[c] >= rconfig.maxAttempts
       THEN /\ Raise(c, lastError'[c])
            /\ UNCHANGED <<delays, wakeAt>>
       ELSE IF ~isRetryable(err.statusCode, rconfig)
       THEN /\ Raise(c, Some(err))
            /\ UNCHANGED <<delays, wakeAt>>
       ELSE LET delay == calculateDelay(attempt[c], rconfig, retryAfter)
            IN  /\ rpc' = [rpc EXCEPT ![c] = "sleeping"]
                /\ delays' = [delays EXCEPT ![c] = Append(@, delay)]
                /\ wakeAt' = [wakeAt EXCEPT ![c] = now + Max(delay, 0)]
                /\ UNCHANGED outcome

\* The catch block, entered with fn() rejected with err; retryAfter is
\* what getRetryAfter(err) yields.
CatchBlock(c, err, retryAfter) ==
    /\ log' = [log EXCEPT ![c] = Append(@, err)]
    /\ lastError' = [lastError EXCEPT ![c] = Some(err)]
    /\ UNCHANGED <<rconfig, attempt>>
    /\ IF attempt[c] >= rconfig.maxAttempts
       THEN /\ Raise(c, Some(err))
            /\ UNCHANGED <<delays, wakeAt>>
       ELSE IF ~isRetryable(err.statusCode, rconfig)
       THEN /\ Raise(c, Some(err))
            /\ UNCHANGED <<delays, wakeAt>>
       ELSE LET delay == calculateDelay(attempt[c], rconfig, retryAfter)
            IN  /\ rpc' = [rpc EXCEPT ![c] = "sleeping"]
                /\ delays' = [delays EXCEPT ![c] = Append(@, delay)]
                /\ wakeAt' = [wakeAt EXCEPT ![c] = now + Max(delay, 0)]
                /\ UNCHANGED outcome

\* fn() of an arbitrary caller of withRetry fulfils.
AttemptReturns(c) ==
    /\ rpc[c] = "running"
    /\ ReturnBlock(c, Success(Len(log[c]) + 1))
    /\ UNCHANGED now

\* fn() of an arbitrary caller of withRetry rejects; getRetryAfter is an
\* arbitrary extractor, its result is the failure's retryAfter.
AttemptThrowsWith(c, sc, ra) ==
    /\ rpc[c] = "running"
    /\ CatchBlock(c, Failure(sc, ra, Len(log[c]) + 1), ra)
    /\ UNCHANGED now

AttemptThrows(c) == \E sc \in Opt(StatusCodes), ra \in Opt(HintValues) : AttemptThrowsWith(c, sc, ra)

\* The sleep() timer fires: attempt++ and the loop head again.
SleepDone(c) ==
    /\ rpc[c] = "sleeping"
    /\ now' = Max(now, wakeAt[c])
    /\ LoopHead(c, attempt[c] + 1, lastError[c])
    /\ UNCHANGED <<rconfig, lastError, delays, log, wakeAt>>

RetryIdle(configs) ==
    /\ rconfig \in configs
    /\ rpc = [c \in Calls |-> "idle"]
    /\ attempt = [c \in Calls |-> 0]
    /\ lastError = [c \in Calls |-> Undefined]
    /\ outcome = [c \in Calls |-> NoOutcome]
    /\ delays = [c \in Calls |-> <<>>]
    /\ log = [c \in Calls |-> <<>>]
    /\ wakeAt = [c \in Calls |-> 0]

(***************************************************************************)
(* OAuthManager and MemoryTokenStore                                       *)
(***************************************************************************)
AuthProcs == 1..MaxAuthCalls

\* isTokenExpired's default bufferSeconds.
BufferSeconds == 300

TokenData(at, rt, exp, sc, ath) ==
    [accessToken |-> at, refreshToken |-> rt, expiresAt |-> exp,
     tokenType |-> "Bearer", scope |-> sc, athleteId |-> ath]

\* The records a store handed to the constructor may already hold
\* (expiresAt in epoch seconds, around the refresh buffer and beyond it).
InitialTokens ==
    {TokenData(0, 0, e, x[1], x[2]) :
        e \in {300, 301, 4000}, x \in {<<Undefined, Undefined>>, <<Some("read"), Some(7)>>}}

\* What the provider answers to a token exchange: expires_at, athlete.id.
ResponseExpiresAt == {4000}
ResponseAthlete == Opt({8})

\* refreshAccessToken / exchangeCode: the TokenData built from the n-th
\* TokenResponse of the provider (no scope is taken from a response).
TokenFromResponse(n, exp, ath) == TokenData(n, n, exp, Undefined, ath)

AuthError(status) == [error |-> "StravaAuthError", statusCode |-> status]
NoResult == [kind |-> "none", value |-> Undefined]

isTokenExpired_noBuffer(token, t) == token.expiresAt <= (t \div 1000)

isTokenExpired(token, t) == token.expiresAt <= ((t \div 1000) + BufferSeconds)

\* The record getToken and refreshToken persist after a refresh.
RefreshedToken(token, newToken) ==
    [newToken EXCEPT
        !.scope = token.scope,
        !.athleteId = IF token.athleteId # Undefined /\ Val(token.athleteId) # 0
                      THEN token.athleteId ELSE newToken.athleteId]

AuthIdle(stores) ==
    /\ store \in stores
    /\ issued = 0
    /\ oop = [p \in AuthProcs |-> "none"]
    /\ opc = [p \in AuthProcs |-> "idle"]
    /\ otoken = [p \in AuthProcs |-> Undefined]
    /\ ocheckedAt = [p \in AuthProcs |-> 0]
    /\ oresult = [p \in AuthProcs |-> NoResult]
    /\ exchanges = [p \in AuthProcs |-> 0]
    /\ owrites = [p \in AuthProcs |-> <<>>]
    /\ oresponse = [p \in AuthProcs |-> Undefined]

\* getToken() / refreshToken() is called: tokenStore.get() reads the store
\* and the call suspends on the await.
OAuthCall(p, op) ==
    /\ opc[p] = "idle"
    /\ oop' = [oop EXCEPT ![p] = op]
    /\ otoken' = [otoken EXCEPT ![p] = store]
    /\ opc' = [opc EXCEPT ![p] = "await_get"]
    /\ UNCHANGED <<now, store, issued, ocheckedAt, oresult, exchanges, owrites, oresponse>>

OReturn(p, v) ==
    /\ opc' = [opc EXCEPT ![p] = "done"]
    /\ oresult' = [oresult EXCEPT ![p] = [kind |-> "returned", value |-> v]]

OThrow(p, e) ==
    /\ opc' = [opc EXCEPT ![p] = "thrown"]
    /\ oresult' = [oresult EXCEPT ![p] = [kind |-> "thrown", value |-> Some(e)]]

\* refreshAccessToken is entered: its fetch is issued.
StartRefresh(p) ==
    /\ opc' = [opc EXCEPT ![p] = "refreshing"]
    /\ exchanges' = [exchanges EXCEPT ![p] = @ + 1]
    /\ UNCHANGED oresult

\* getToken resumes after `await this.tokenStore.get()`.
GetTokenResume_neverRefreshes(p) ==
    /\ oop[p] = "getToken" /\ opc[p] = "await_get"
    /\ ocheckedAt' = [ocheckedAt EXCEPT ![p] = now]
    /\ OReturn(p, otoken[p]) /\ UNCHANGED exchanges
    /\ UNCHANGED <<now, store, issued, oop, otoken, owrites, oresponse>>

GetTokenResume(p) ==
    /\ oop[p] = "getToken" /\ opc[p] = "await_get"
    /\ ocheckedAt' = [ocheckedAt EXCEPT ![p] = now]
    /\ IF otoken[p] = Undefined
       THEN OReturn(p, Undefined) /\ UNCHANGED exchanges
       ELSE IF isTokenExpired(Val(otoken[p]), now)
       THEN StartRefresh(p)
       ELSE OReturn(p, otoken[p]) /\ UNCHANGED exchanges
    /\ UNCHANGED <<now, store, issued, oop, otoken, owrites, oresponse>>

\* refreshToken resumes after `await this.tokenStore.get()`.
RefreshTokenResume(p) ==
    /\ oop[p] = "refreshToken" /\ opc[p] = "await_get"
    /\ ocheckedAt' = [ocheckedAt EXCEPT ![p] = now]
    /\ IF otoken[p] = Undefined
       THEN OThrow(p, AuthError(Undefined)) /\ UNCHANGED exchanges
       ELSE StartRefresh(p)
    /\ UNCHANGED <<now, store, issued, oop, otoken, owrites, oresponse>>

\* The refresh exchange answers 2xx: the refreshed record is passed to
\* tokenStore.set(), which stores it, and the call suspends on the await.
RefreshSucceeds(p, exp, ath) ==
    /\ opc[p] = "refreshing"
    /\ LET newToken == TokenFromResponse(issued + 1, exp, ath)
           refreshedToken == RefreshedToken(Val(otoken[p]), newToken)
       IN  /\ oresponse' = [oresponse EXCEPT ![p] = Some(newToken)]
           /\ store' = Some(refreshedToken)
           /\ owrites' = [owrites EXCEPT ![p] = Append(@, Some(refreshedToken))]
           /\ oresult' = [oresult EXCEPT ![p] = [kind |-> "pending", value |-> Some(refreshedToken)]]
    /\ issued' = issued + 1
    /\ opc' = [opc EXCEPT ![p] = "await_set"]
    /\ UNCHANGED <<now, oop, otoken, ocheckedAt, exchanges>>

\* `return refreshedToken` (getToken, refreshToken) or `return token`
\* (authenticate) after `await this.tokenStore.set(...)`.
ReturnRefreshed(p) ==
    /\ opc[p] = "await_set"
    /\ OReturn(p, oresult[p].value)
    /\ UNCHANGED <<now, store, issued, oop, otoken, ocheckedAt, exchanges, owrites, oresponse>>

\* The catch block of getToken: tokenStore.clear() empties the store and
\* the call suspends on the await, the error still to be rethrown.
GetTokenCatch_noClear(p, status) ==
    /\ oresult' = [oresult EXCEPT ![p] = [kind |-> "pending", value |-> Some(AuthError(Some(status)))]]
    /\ opc' = [opc EXCEPT ![p] = "await_clear"]
    /\ UNCHANGED <<store, owrites>>

GetTokenCatch(p, status) ==
    /\ store' = Undefined
    /\ owrites' = [owrites EXCEPT ![p] = Append(@, Undefined)]
    /\ oresult' = [oresult EXCEPT ![p] = [kind |-> "pending", value |-> Some(AuthError(Some(status)))]]
    /\ opc' = [opc EXCEPT ![p] = "await_clear"]

\* The refresh exchange answers non-2xx: refreshAccessToken throws a
\* StravaAuthError. getToken catches it; refreshToken lets it propagate.
RefreshFails(p, status) ==
    /\ opc[p] = "refreshing"
    /\ IF oop[p] = "getToken"
       THEN GetTokenCatch(p, status)
       ELSE /\ OThrow(p, AuthError(Some(status)))
            /\ UNCHANGED <<store, owrites>>
    /\ UNCHANGED <<now, issued, oop, otoken, ocheckedAt, exchanges, oresponse>>

\* `throw error` after `await this.tokenStore.clear()`.
RethrowAfterClear(p) ==
    /\ opc[p] = "await_clear"
    /\ OThrow(p, Val(oresult[p].value))
    /\ UNCHANGED <<now, store, issued, oop, otoken, ocheckedAt, exchanges, owrites, oresponse>>

\* authenticate(code) is called: exchangeCode issues its fetch.
Authenticate(p) ==
    /\ opc[p] = "idle"
    /\ oop' = [oop EXCEPT ![p] = "authenticate"]
    /\ opc' = [opc EXCEPT ![p] = "exchanging"]
    /\ UNCHANGED <<now, store, issued, otoken, ocheckedAt, oresult, exchanges, owrites, oresponse>>

\* The code exchange answers 2xx: the token built from the response is
\* passed to tokenStore.set(), which stores it, and the call suspends on
\* the await.
ExchangeSucceeds(p, exp, ath) ==
    /\ opc[p] = "exchanging"
    /\ LET token == TokenFromResponse(issued + 1, exp, ath)
       IN  /\ store' = Some(token)
           /\ owrites' = [owrites EXCEPT ![p] = Append(@, Some(token))]
           /\ oresult' = [oresult EXCEPT ![p] = [kind |-> "pending", value |-> Some(token)]]
    /\ issued' = issued + 1
    /\ opc' = [opc EXCEPT ![p] = "await_set"]
    /\ UNCHANGED <<now, oop, otoken, ocheckedAt, exchanges, oresponse>>

\* The code exchange answers non-2xx: exchangeCode throws a
\* StravaAuthError, which authenticate lets propagate.
ExchangeFails(p, status) ==
    /\ opc[p] = "exchanging"
    /\ OThrow(p, AuthError(Some(status)))
    /\ UNCHANGED <<now, store, issued, oop, otoken, ocheckedAt, exchanges, owrites, oresponse>>

\* clearTokens() is called: tokenStore.clear() empties the store and the
\* call suspends on the await.
ClearTokens(p) ==
    /\ opc[p] = "idle"
    /\ oop' = [oop EXCEPT ![p] = "clearTokens"]
    /\ store' = Undefined
    /\ owrites' = [owrites EXCEPT ![p] = Append(@, Undefined)]
    /\ opc' = [opc EXCEPT ![p] = "await_cleared"]
    /\ UNCHANGED <<now, issued, otoken, ocheckedAt, oresult, exchanges, oresponse>>

\* clearTokens() returns after `await this.tokenStore.clear()`.
ClearTokensReturn(p) ==
    /\ opc[p] = "await_cleared"
    /\ OReturn(p, Undefined)
    /\ UNCHANGED <<now, store, issued, oop, otoken, ocheckedAt, exchanges, owrites, oresponse>>

\* Time passes.
AuthAdvance ==
    /\ now + 500 <= MaxAuthTime
    /\ now' = now + 500
    /\ UNCHANGED authVars

(***************************************************************************)
(* RateLimiter                                                             *)
(***************************************************************************)
ShortTermWindow == 15 * 60 * 1000
DailyWindow == 24 * 60 * 60 * 1000
DefaultShortTermLimit == 600
DefaultDailyLimit == 30000
PollInterval == 1000

Strategies == {"queue", "throw", "wait"}

\* The rate-limit headers of a response: X-RateLimit-Limit,
\* X-RateLimit-Usage (first component), X-RateLimit-Limit-Daily,
\* X-RateLimit-Usage-Daily (first component), each optional.
Headers(l, u, dl, du) == [limit |-> l, usage |-> u, dailyLimit |-> dl, dailyUsage |-> du]
NoHeaders == Headers(Undefined, Undefined, Undefined, Undefined)
HeaderSets ==
    {NoHeaders,
     Headers(Some(1), Some(1), Some(30000), Some(1)),
     Headers(Some(600), Some(600), Some(30000), Some(600)),
     Headers(Some(600), Some(1), Some(1), Some(1))}

RECURSIVE DropOld(_, _)
\* `while (requests.length > 0 && requests[0] < cutoff) requests.shift()`
DropOld(requests, cutoff) ==
    IF Len(requests) > 0 /\ Head(requests) < cutoff
    THEN DropOld(Tail(requests), cutoff)
    ELSE requests

\* recordRequest: the usage reported by the server is not used.
recordRequest(requests, t, window, currentUsage) ==
    Append(DropOld(requests, t - window), t)

Purged_keepsOneMore(requests, t, window) == SelectSeq(requests, LAMBDA x : x >= t - window - 1)

\* getRateLimitInfo: `requests.filter((t) => t >= cutoff)`.
Purged(requests, t, window) == SelectSeq(requests, LAMBDA x : x >= t - window)

\* The limiter as a value, for the methods that run one after another
\* within one step.
Limiter ==
    [shortTermLimit |-> shortTermLimit, dailyLimit |-> dailyLimit,
     shortTermRequests |-> shortTermRequests, dailyRequests |-> dailyRequests,
     queue |-> queue]

SetLimiter(L) ==
    /\ shortTermLimit' = L.shortTermLimit
    /\ dailyLimit' = L.dailyLimit
    /\ shortTermRequests' = L.shortTermRequests
    /\ dailyRequests' = L.dailyRequests
    /\ queue' = L.queue

updateFromHeaders(L, h, t) ==
    [L EXCEPT
        !.shortTermLimit = IF h.limit # Undefined THEN Val(h.limit) ELSE @,
        !.shortTermRequests = IF h.usage # Undefined
                              THEN recordRequest(@, t, ShortTermWindow, Val(h.usage))
                              ELSE @,
        !.dailyLimit = IF h.dailyLimit # Undefined THEN Val(h.dailyLimit) ELSE @,
        !.dailyRequests = IF h.dailyUsage # Undefined
                          THEN recordRequest(@, t, DailyWindow, Val(h.dailyUsage))
                          ELSE @]

\* The limiter after getRateLimitInfo() at time t.
getRateLimitInfo(L, t) ==
    [L EXCEPT
        !.shortTermRequests = Purged(@, t, ShortTermWindow),
        !.dailyRequests = Purged(@, t, DailyWindow)]

canMakeRequest_noPurge(L, t) ==
    /\ Len(L.shortTermRequests) < L.shortTermLimit
    /\ Len(L.dailyRequests) < L.dailyLimit

\* The value of canMakeRequest() at time t (it runs getRateLimitInfo).
canMakeRequest(L, t) ==
    LET info == getRateLimitInfo(L, t)
    IN  /\ Len(info.shortTermRequests) < info.shortTermLimit
        /\ Len(info.dailyRequests) < info.dailyLimit

\* The RateLimitInfo getRateLimitInfo() returns at time t.
RateLimitInfo(L, t) ==
    [shortTermLimit |-> L.shortTermLimit,
     shortTermUsage |-> Len(getRateLimitInfo(L, t).shortTermRequests),
     dailyLimit |-> L.dailyLimit,
     dailyUsage |-> Len(getRateLimitInfo(L, t).dailyRequests)]

RECURSIVE processQueueLoop_lifo(_, _, _)
processQueueLoop_lifo(L, t, resolved) ==
    IF Len(L.queue) > 0
    THEN IF canMakeRequest(L, t)
         THEN processQueueLoop_lifo(
                [getRateLimitInfo(L, t) EXCEPT !.queue = SubSeq(@, 1, Len(@) - 1)], t,
                Append(resolved, L.queue[Len(L.queue)]))
         ELSE [limiter |-> getRateLimitInfo(L, t), resolved |-> resolved]
    ELSE [limiter |-> L, resolved |-> resolved]

RECURSIVE processQueueLoop(_, _, _)
\* `while (queue.length > 0 && canMakeRequest()) queue.shift().resolve()`,
\* entered with the waiters resolved so far: the limiter after the loop and
\* the waiters in the order they were resolved. resolve() only schedules
\* the waiter.
processQueueLoop(L, t, resolved) ==
    IF Len(L.queue) > 0
    THEN IF canMakeRequest(L, t)
         THEN processQueueLoop([getRateLimitInfo(L, t) EXCEPT !.queue = Tail(@)], t,
                               Append(resolved, Head(L.queue)))
         ELSE [limiter |-> getRateLimitInfo(L, t), resolved |-> resolved]
    ELSE [limiter |-> L, resolved |-> resolved]

\* The limiter after processQueue() at time t.
processQueue(L, t) == processQueueLoop(L, t, <<>>).limiter

\* The waiters processQueue() resolves at time t, in the order it does.
Released(L, t) == processQueueLoop(L, t, <<>>).resolved

LimiterIdle(strategies) ==
    /\ strategy \in strategies
    /\ shortTermLimit = DefaultShortTermLimit
    /\ dailyLimit = DefaultDailyLimit
    /\ shortTermRequests = <<>>
    /\ dailyRequests = <<>>
    /\ queue = <<>>

(***************************************************************************)
(* makeRequest                                                             *)
(***************************************************************************)
\* The mark of the record a step leaves: it differs from the mark of the
\* record it replaces, so that every step that makes the call is seen.
Mark(last) == IF last = Undefined THEN TRUE ELSE ~Val(last).mark

\* getRateLimitInfo() ran on limiter L.
InfoRead(L, t) ==
    lastInfo' = Some([info |-> RateLimitInfo(L, t), at |-> t, mark |-> Mark(lastInfo)])

\* canMakeRequest() ran on limiter L.
CanRead(L, t) ==
    /\ InfoRead(L, t)
    /\ lastCan' = Some([result |-> canMakeRequest(L, t), at |-> t, mark |-> Mark(lastCan)])

\* processQueue() ran on limiter L: its loop calls canMakeRequest() only
\* while the queue is not empty.
LoopRead(L, t) == IF Len(L.queue) > 0 THEN CanRead(L, t) ELSE UNCHANGED <<lastInfo, lastCan>>

MakeRequestIdle ==
    /\ mpc = [c \in Calls |-> "idle"]
    /\ response = [c \in Calls |-> Undefined]
    /\ netCalls = [c \in Calls |-> 0]
    /\ pollAt = [c \in Calls |-> 0]
    /\ arrivals = <<>>
    /\ admissions = <<>>
    /\ reported = Undefined
    /\ enqueued = <<>>
    /\ drained = <<>>
    /\ lastInfo = Undefined
    /\ lastCan = Undefined
    /\ refusedWith = [c \in Calls |-> Undefined]

\* The Error waitForAvailability() throws under the throw strategy: a
\* plain Error whose message holds the figures just read; it has no
\* statusCode, limit or usage property.
RateLimitExceeded(info) ==
    [name |-> "Error",
     message |-> [text |-> "Rate limit exceeded", shortTermUsage |-> info.shortTermUsage,
                  shortTermLimit |-> info.shortTermLimit, dailyUsage |-> info.dailyUsage,
                  dailyLimit |-> info.dailyLimit],
     statusCode |-> Undefined, limit |-> Undefined, usage |-> Undefined]

\* The calls whose makeRequest resumes after `await waitForAvailability()`
\* on a settled promise. Such a continuation is a microtask: it runs
\* before any timer or I/O callback, and only code of the callers can run
\* before it.
Resuming == \E c \in Calls : mpc[c] \in {"admitted", "refused"} /\ rpc[c] = "running"

\* The waiters of the sequence `released` had their promise resolved.
Resolved(released) ==
    [d \in Calls |->
        IF \E i \in 1..Len(released) : released[i].id = d THEN "admitted" ELSE mpc[d]]

Ids(entries) == [i \in 1..Len(entries) |-> entries[i].id]

\* waitForAvailability() as invoked by call c when Date.now() is t, up to
\* its first suspension or its return: the promise it returns is then
\* resolved (the caller is admitted), rejected, or pending.
waitForAvailability(c, t) ==
    LET L == getRateLimitInfo(Limiter, t)
    IN  /\ arrivals' = Append(arrivals, c)
        /\ IF canMakeRequest(Limiter, t)
           THEN /\ SetLimiter(L)
                /\ mpc' = [mpc EXCEPT ![c] = "admitted"]
                /\ admissions' = Append(admissions, c)
                /\ UNCHANGED pollAt
           ELSE IF strategy = "throw"
           THEN /\ SetLimiter(L)
                /\ mpc' = [mpc EXCEPT ![c] = "refused"]
                /\ UNCHANGED <<admissions, pollAt>>
           ELSE IF strategy = "wait"
           THEN /\ SetLimiter(L)
                /\ mpc' = [mpc EXCEPT ![c] = "polling"]
                /\ pollAt' = [pollAt EXCEPT ![c] = t + PollInterval]
                /\ UNCHANGED admissions
           ELSE /\ SetLimiter([L EXCEPT !.queue = Append(@, [id |-> c, timestamp |-> t])])
                /\ mpc' = [mpc EXCEPT ![c] = "queued"]
                /\ UNCHANGED <<admissions, pollAt>>
        /\ enqueued' = IF ~canMakeRequest(Limiter, t) /\ strategy = "queue"
                       THEN Append(enqueued, c)
                       ELSE enqueued
        /\ CanRead(Limiter, t)
        /\ refusedWith' = IF ~canMakeRequest(Limiter, t) /\ strategy = "throw"
                          THEN [refusedWith EXCEPT
                                  ![c] = Some(RateLimitExceeded(RateLimitInfo(Limiter, t)))]
                          ELSE refusedWith
        /\ UNCHANGED <<strategy, response, netCalls, reported, drained>>

\* request() without a deduplicator: withRetry is entered, and where its
\* loop head invokes makeRequest, that runs up to its first suspension.
RequestStart(c) ==
    /\ RetryStart(c)
    /\ IF rpc'[c] = "running"
       THEN waitForAvailability(c, now)
       ELSE UNCHANGED <<limVars, mrVars>>

\* The sleep() timer of withRetry fires and the next attempt begins, at the
\* time the timer fired.
RequestSleepDone_skipsAdmission(c) ==
    /\ ~Resuming
    /\ SleepDone(c)
    /\ IF rpc'[c] = "running"
       THEN /\ mpc' = [mpc EXCEPT ![c] = "admitted"]
            /\ UNCHANGED <<limVars, response, netCalls, pollAt, arrivals, admissions, reported,
                           enqueued, drained, lastInfo, lastCan, refusedWith>>
       ELSE UNCHANGED <<limVars, mrVars>>

RequestSleepDone(c) ==
    /\ ~Resuming
    /\ SleepDone(c)
    /\ IF rpc'[c] = "running"
       THEN waitForAvailability(c, Max(now, wakeAt[c]))
       ELSE UNCHANGED <<limVars, mrVars>>

\* makeRequest of call c resumes after `await waitForAvailability()`, which
\* let it pass: fetch() is issued.
IssueFetch(c) ==
    /\ mpc[c] = "admitted" /\ rpc[c] = "running"
    /\ mpc' = [mpc EXCEPT ![c] = "fetching"]
    /\ netCalls' = [netCalls EXCEPT ![c] = @ + 1]
    /\ UNCHANGED <<now, limVars, response, pollAt, arrivals, admissions, reported, enqueued,
                   drained, lastInfo, lastCan, refusedWith, retryVars>>

\* The waitForAvailability() of the "throw" strategy raised its Error; it
\* is raised outside makeRequest's try block, reaches the catch block of
\* withRetry as it is (an Error without statusCode) and the extractor of
\* request() yields no hint for it.
RequestRefused(c) ==
    /\ mpc[c] = "refused" /\ rpc[c] = "running"
    /\ CatchBlock(c, Failure(Undefined, Undefined, Len(log[c]) + 1), Undefined)
    /\ mpc' = [mpc EXCEPT ![c] = "idle"]
    /\ UNCHANGED <<now, limVars, response, netCalls, pollAt, arrivals, admissions, reported,
                   enqueued, drained, lastInfo, lastCan, refusedWith>>

\* The 1 s timer of the "wait" strategy fires: canMakeRequest() again;
\* waitForAvailability() returns or sleeps another second.
PollWake(c) ==
    /\ ~Resuming
    /\ mpc[c] = "polling" /\ now >= pollAt[c]
    /\ SetLimiter(getRateLimitInfo(Limiter, now))
    /\ IF canMakeRequest(Limiter, now)
       THEN /\ mpc' = [mpc EXCEPT ![c] = "admitted"]
            /\ admissions' = Append(admissions, c)
            /\ UNCHANGED pollAt
       ELSE /\ pollAt' = [pollAt EXCEPT ![c] = now + PollInterval]
            /\ UNCHANGED <<mpc, admissions>>
    /\ CanRead(Limiter, now)
    /\ UNCHANGED <<now, strategy, response, netCalls, arrivals, reported, enqueued, drained,
                   refusedWith, retryVars>>

\* A JSON object as response.json() yields it: its members in order, each
\* the characters of its key with a number.
Member(key, value) == [key |-> key, value |-> value]
IdBody == <<Member(<<"i", "d">>, 42)>>
MaxWattsBody == <<Member(<<"m", "a", "x", "_", "w", "a", "t", "t", "s">>, 250)>>
BothSpellingsBody == <<Member(<<"a", "_", "b">>, 1), Member(<<"a", "B">>, 2)>>
ResponseBodies == {IdBody, MaxWattsBody, BothSpellingsBody}

LowerCase ==
    <<"a", "b", "c", "d", "e", "f", "g", "h", "i", "j", "k", "l", "m",
      "n", "o", "p", "q", "r", "s", "t", "u", "v", "w", "x", "y", "z">>
UpperCase ==
    <<"A", "B", "C", "D", "E", "F", "G", "H", "I", "J", "K", "L", "M",
      "N", "O", "P", "Q", "R", "S", "T", "U", "V", "W", "X", "Y", "Z">>
IsLowerCase(ch) == \E i \in 1..26 : LowerCase[i] = ch
toUpperCase(ch) == UpperCase[CHOOSE i \in 1..26 : LowerCase[i] = ch]

RECURSIVE camelKey(_)
\* `key.replace(/_([a-z])/g, (_, letter) => letter.toUpperCase())`
camelKey(key) ==
    IF key = <<>> THEN <<>>
    ELSE IF Len(key) >= 2 /\ key[1] = "_" /\ IsLowerCase(key[2])
    THEN <<toUpperCase(key[2])>> \o camelKey(SubSeq(key, 3, Len(key)))
    ELSE <<key[1]>> \o camelKey(Tail(key))

\* `normalized[key] = value`: a key the object already has keeps its place
\* and takes the new value.
Assigned(object, key, value) ==
    IF \E i \in 1..Len(object) : object[i].key = key
    THEN [i \in 1..Len(object) |->
             IF object[i].key = key THEN Member(key, value) ELSE object[i]]
    ELSE Append(object, Member(key, value))

RECURSIVE normalizeEntries(_, _)
\* The loop over Object.entries(data), entered with the object built so
\* far; the values are numbers, which normalizeKeys returns as they are.
normalizeEntries(entries, normalized) ==
    IF entries = <<>> THEN normalized
    ELSE normalizeEntries(Tail(entries),
                          Assigned(normalized, camelKey(Head(entries).key), Head(entries).value))

\* normalizeKeys on an object whose values are numbers.
normalizeKeys(data) == normalizeEntries(data, <<>>)

\* applyTransformations with the options request() defaults to:
\* transformDates, flattenResponses and addComputedFields are off.
applyTransformations(data, shouldNormalizeKeys) ==
    IF shouldNormalizeKeys THEN normalizeKeys(data) ELSE data

\* The statuses and Retry-After headers of the responses explored.
ResponseStatuses == {200, 404, 429, 501, 503}
RetryAfterHeaders == {"", "0", "2", "20"}

\* `parseInt(retryAfter, 10)` on the header texts explored.
parseInt10(text) ==
    CASE text = "0" -> 0
      [] text = "2" -> 2
      [] text = "20" -> 20

\* The `name` of the error class the switch of createErrorFromResponse
\* selects for a status.
errorName(status) ==
    CASE status \in {401, 403} -> "StravaAuthError"
      [] status = 404 -> "StravaNotFoundError"
      [] status = 422 -> "StravaValidationError"
      [] status = 429 -> "StravaRateLimitError"
      [] status \in {500, 502, 503, 504} -> "StravaServerError"
      [] OTHER -> "StravaError"

\* createErrorFromResponse: the failure built from a non-2xx response; only
\* a StravaRateLimitError carries retryAfter,
\* `retryAfter ? parseInt(retryAfter, 10) : undefined`.
createErrorFromResponse(status, retryAfterHeader, n) ==
    Failure(Some(status),
            IF errorName(status) = "StravaRateLimitError"
                /\ retryAfterHeader # Undefined /\ Val(retryAfterHeader) # ""
            THEN Some(parseInt10(Val(retryAfterHeader)))
            ELSE Undefined,
            n)

RequestRetryAfter_noHint(err) == Undefined

\* The extractor request() hands to withRetry.
RequestRetryAfter(err) ==
    IF err.statusCode = Some(429) /\ err.retryAfter # Undefined /\ Val(err.retryAfter) # 0
    THEN err.retryAfter
    ELSE Undefined

\* fetch() of call c resolves with a response: updateFromHeaders and
\* processQueue run, which resolves the promises of the waiters it
\* releases, and the call suspends on reading the body.
FetchResponds(c, status, h, ra) ==
    /\ ~Resuming
    /\ mpc[c] = "fetching" /\ rpc[c] = "running"
    /\ LET L1 == updateFromHeaders(Limiter, h, now)
           L2 == processQueue(L1, now)
           released == Released(L1, now)
       IN  /\ SetLimiter(L2)
           /\ mpc' = [Resolved(released) EXCEPT ![c] = "reading"]
           /\ admissions' = admissions \o Ids(released)
           /\ drained' = drained \o Ids(released)
    /\ response' = [response EXCEPT ![c] = Some([status |-> status, retryAfter |-> ra])]
    /\ reported' = IF h.limit # Undefined /\ h.usage # Undefined
                   THEN Some([limit |-> Val(h.limit), usage |-> Val(h.usage),
                              dailyLimit |-> h.dailyLimit, at |-> now])
                   ELSE reported
    /\ LoopRead(updateFromHeaders(Limiter, h, now), now)
    /\ UNCHANGED <<now, strategy, netCalls, pollAt, arrivals, enqueued, refusedWith, retryVars>>

\* `response.ok`
ok(status) == status >= 200 /\ status <= 299

\* The body of the response of call c has been read: the error built by
\* createErrorFromResponse for a non-2xx response is thrown to withRetry;
\* when response.json() parsed the body of a 2xx response to rawData, the
\* transformed data are returned to it, and when it failed (rawData
\* undefined) the catch block of makeRequest throws a StravaError without
\* statusCode.
BodyRead(c, rawData) ==
    /\ ~Resuming
    /\ mpc[c] = "reading" /\ rpc[c] = "running"
    /\ LET status == Val(response[c]).status
           n == Len(log[c]) + 1
       IN  IF ~ok(status)
           THEN LET err == createErrorFromResponse(status, Val(response[c]).retryAfter, n)
                IN  CatchBlock(c, err, RequestRetryAfter(err))
           ELSE IF rawData # Undefined
           THEN ReturnBlock(c, [Success(n) EXCEPT
                                   !.body = rawData,
                                   !.value = Some(applyTransformations(Val(rawData), TRUE))])
           ELSE CatchBlock(c, Failure(Undefined, Undefined, n), Undefined)
    /\ mpc' = [mpc EXCEPT ![c] = "idle"]
    /\ response' = [response EXCEPT ![c] = Undefined]
    /\ UNCHANGED <<now, limVars, netCalls, pollAt, arrivals, admissions, reported, enqueued,
                   drained, lastInfo, lastCan, refusedWith>>

\* fetch() of call c rejects (the timeout aborted it, or the network
\* failed): a StravaError without statusCode is thrown to withRetry; the
\* limiter is not touched.
FetchRejects(c) ==
    /\ ~Resuming
    /\ mpc[c] = "fetching" /\ rpc[c] = "running"
    /\ mpc' = [mpc EXCEPT ![c] = "idle"]
    /\ CatchBlock(c, Failure(Undefined, Undefined, Len(log[c]) + 1), Undefined)
    /\ UNCHANGED <<now, limVars, response, netCalls, pollAt, arrivals, admissions, reported,
                   enqueued, drained, lastInfo, lastCan, refusedWith>>

\* updateFromHeaders(headers) called on its own.
UpdateFromHeadersCall(h) ==
    /\ SetLimiter(updateFromHeaders(Limiter, h, now))
    /\ reported' = IF h.limit # Undefined /\ h.usage # Undefined
                   THEN Some([limit |-> Val(h.limit), usage |-> Val(h.usage),
                              dailyLimit |-> h.dailyLimit, at |-> now])
                   ELSE reported
    /\ UNCHANGED <<now, strategy, mpc, response, netCalls, pollAt, arrivals, admissions, enqueued,
                   drained, lastInfo, lastCan, refusedWith>>

\* processQueue() called on its own: the promises of the released waiters
\* are resolved.
ProcessQueueCall ==
    LET released == Released(Limiter, now)
    IN  /\ SetLimiter(processQueue(Limiter, now))
        /\ mpc' = Resolved(released)
        /\ admissions' = admissions \o Ids(released)
        /\ drained' = drained \o Ids(released)
        /\ LoopRead(Limiter, now)
        /\ UNCHANGED <<now, strategy, response, netCalls, pollAt, arrivals, reported, enqueued,
                       refusedWith>>

\* canMakeRequest() called on its own.
CanMakeRequestCall ==
    /\ SetLimiter(getRateLimitInfo(Limiter, now))
    /\ CanRead(Limiter, now)
    /\ UNCHANGED <<now, strategy, mpc, response, netCalls, pollAt, arrivals, admissions, reported,
                   enqueued, drained, refusedWith>>

\* getRateLimitInfo() called on its own.
GetRateLimitInfoCall ==
    /\ SetLimiter(getRateLimitInfo(Limiter, now))
    /\ InfoRead(Limiter, now)
    /\ UNCHANGED <<now, strategy, mpc, response, netCalls, pollAt, arrivals, admissions, reported,
                   enqueued, drained, lastCan, refusedWith>>

\* setStrategy(strategy)
setStrategy(s) ==
    /\ strategy' = s
    /\ UNCHANGED <<now, shortTermLimit, dailyLimit, shortTermRequests, dailyRequests, queue, mrVars>>

\* Time passes.
Advance(d) ==
    /\ ticks < MaxTicks
    /\ ticks' = ticks + 1
    /\ now' = now + d

(***************************************************************************)
(* RequestDeduplicator                                                     *)
(***************************************************************************)
\* The constructor's default windowMs.
windowMs == 5000

\* A string is modelled as the sequence of its pieces, so that joining is
\* concatenation. The query is the insertion-ordered list of its
\* <<name, value>> pairs. A JavaScript value is its type with its text
\* (the characters of a string, the digits of a number, the JSON text of
\* an object).
JsValue(type, text) == [type |-> type, text |-> text]
Str(text) == JsValue("string", text)
Num(digits) == JsValue("number", <<digits>>)
Obj(json) == JsValue("object", <<json>>)
JsUndefined == JsValue("undefined", <<>>)

\* String(value)
String(v) == IF v.type = "undefined" THEN <<"undefined">> ELSE v.text

\* JSON.stringify(value) of a defined value
JSONstringify(v) == IF v.type = "string" THEN <<"\"">> \o v.text \o <<"\"">> ELSE v.text

\* The truthiness `if (body)` and `config.body ? ... : undefined` test.
Truthy(v) ==
    /\ v.type # "undefined"
    /\ ~(v.type = "number" /\ v.text = <<"0">>)
    /\ ~(v.type = "string" /\ v.text = <<>>)

RequestConfig(method, path, query, body) ==
    [method |-> method, path |-> path, query |-> query, body |-> body]

\* The parameter names in the order Array.prototype.sort gives them.
SortedNames == <<"page", "per_page">>

RECURSIVE JoinFrom(_, _, _)
\* parts[i..] joined with sep.
JoinFrom(parts, i, sep) ==
    IF i > Len(parts) THEN <<>>
    ELSE IF i = Len(parts) THEN parts[i]
    ELSE parts[i] \o <<sep>> \o JoinFrom(parts, i + 1, sep)

Join(parts, sep) == JoinFrom(parts, 1, sep)

\* `Object.keys(query).sort().map((key) => `${key}=${String(query[key])}`)`
SortedQuery(query) ==
    LET present == SelectSeq(SortedNames, LAMBDA name : \E i \in 1..Len(query) : query[i][1] = name)
        value(name) == query[CHOOSE i \in 1..Len(query) : query[i][1] = name][2]
    IN  Join([i \in 1..Len(present) |-> <<present[i], "=">> \o String(value(present[i]))], "&")

generateKey(config) ==
    LET parts0 == <<<<config.method>>, <<config.path>>>>
        parts1 == IF config.query # Undefined
                  THEN Append(parts0, SortedQuery(Val(config.query)))
                  ELSE parts0
        parts2 == IF config.body # Undefined /\ Truthy(Val(config.body))
                  THEN Append(parts1, JSONstringify(Val(config.body)))
                  ELSE parts1
    IN  Join(parts2, "|")

\* buildQueryString(query): the <<name, text>> pairs appended to the
\* URLSearchParams, in insertion order (undefined values are skipped).
RECURSIVE AppendedFrom(_, _)
AppendedFrom(query, i) ==
    IF i > Len(query) THEN <<>>
    ELSE IF query[i][2].type # "undefined"
    THEN <<<<query[i][1], String(query[i][2])>>>> \o AppendedFrom(query, i + 1)
    ELSE AppendedFrom(query, i + 1)

buildQueryString(query) == IF query = Undefined THEN <<>> ELSE AppendedFrom(Val(query), 1)

\* `body: config.body ? JSON.stringify(config.body) : undefined`
SentBody(config) ==
    IF config.body # Undefined /\ Truthy(Val(config.body))
    THEN Some(JSONstringify(Val(config.body))) ELSE Undefined

\* The requests explored.
RequestConfigs ==
    {RequestConfig("GET", "/athlete", Undefined, Undefined),
     RequestConfig("GET", "/athlete/activities",
                   Some(<<<<"per_page", Num("30")>>, <<"page", Num("1")>>>>), Undefined)}

\* The requests whose keys are compared.
KeyMethods == {"GET", "POST"}
KeyQueries ==
    {Undefined,
     Some(<<<<"per_page", Num("30")>>, <<"page", Num("1")>>>>),
     Some(<<<<"page", Num("1")>>, <<"per_page", Num("30")>>>>),
     Some(<<<<"page", Num("2")>>, <<"per_page", Num("30")>>>>),
     Some(<<<<"page", Str(<<"1", "&", "per_page", "=", "30">>)>>>>),
     Some(<<<<"page", JsUndefined>>>>),
     Some(<<<<"page", Str(<<"undefined">>)>>>>)}
KeyBodies == {Undefined, Some(Num("0")), Some(Obj("{\"name\":\"ride\"}"))}
KeyConfigs ==
    {RequestConfig(method, "/athlete/activities", query, body) :
        method \in KeyMethods, query \in KeyQueries, body \in KeyBodies}

Keys == {generateKey(config) : config \in RequestConfigs \union KeyConfigs}

NoHandle == Undefined

DeduplicatorIdle ==
    /\ cache = [k \in Keys |-> Undefined]
    /\ cleanupInterval = TRUE
    /\ nextSweep = windowMs
    /\ handle = [c \in Calls |-> NoHandle]
    /\ factoryLog = <<>>
    /\ destroys = 0

\* `cached && (now - cached.timestamp) < this.windowMs`
CacheHit_whilePending(key, t) ==
    /\ cache[key] # Undefined
    /\ (t - Val(cache[key]).timestamp) < windowMs
    /\ rpc[Val(cache[key]).promise] \notin {"returned", "thrown"}

CacheHit_inclusive(key, t) ==
    /\ cache[key] # Undefined
    /\ (t - Val(cache[key]).timestamp) <= windowMs

CacheHit(key, t) ==
    /\ cache[key] # Undefined
    /\ (t - Val(cache[key]).timestamp) < windowMs

\* getOrCreate(method, path, query, body, factory) called by caller r; the
\* promise factory() returns is identified with r, the caller that had it
\* made. `found` records the state of the promise handed out.
getOrCreate(r, config) ==
    LET key == generateKey(config)
    IN  /\ handle[r] = NoHandle
        /\ IF CacheHit(key, now)
           THEN LET cached == Val(cache[key])
                IN  /\ handle' = [handle EXCEPT ![r] =
                            Some([key |-> key, promise |-> cached.promise, at |-> now,
                                  found |-> rpc[cached.promise], epoch |-> destroys,
                                  config |-> config])]
                    /\ UNCHANGED <<cache, factoryLog>>
           ELSE /\ cache' = [cache EXCEPT ![key] = Some([promise |-> r, timestamp |-> now])]
                /\ handle' = [handle EXCEPT ![r] =
                        Some([key |-> key, promise |-> r, at |-> now, found |-> "new",
                              epoch |-> destroys, config |-> config])]
                /\ factoryLog' = Append(factoryLog,
                        [key |-> key, promise |-> r, at |-> now, epoch |-> destroys])
        /\ UNCHANGED <<cleanupInterval, nextSweep, destroys>>

\* Whether the getOrCreate step of caller r invoked factory().
FactoryInvoked(r) == handle'[r] # NoHandle /\ Val(handle'[r]).promise = r /\ handle[r] = NoHandle

\* The interval timer fires, when due or later: cleanup() deletes the
\* expired entries, and the timer is due again windowMs after it fired.
Cleanup ==
    /\ cleanupInterval /\ now >= nextSweep
    /\ cache' = [k \in Keys |->
                    IF cache[k] # Undefined /\ now - Val(cache[k]).timestamp >= windowMs
                    THEN Undefined ELSE cache[k]]
    /\ nextSweep' = now + windowMs
    /\ UNCHANGED <<now, cleanupInterval, handle, factoryLog, destroys>>

\* destroy(): the timer is cleared and the cache emptied.
Destroy_keepsTimer ==
    /\ cache' = [k \in Keys |-> Undefined]
    /\ destroys' = destroys + 1
    /\ UNCHANGED <<now, cleanupInterval, nextSweep, handle, factoryLog>>

Destroy ==
    /\ cleanupInterval' = FALSE
    /\ cache' = [k \in Keys |-> Undefined]
    /\ destroys' = destroys + 1
    /\ UNCHANGED <<now, nextSweep, handle, factoryLog>>

(***************************************************************************)
(* PaginatedIterator and listAll                                           *)
(***************************************************************************)
DefaultPerPage == 30
PerPages == 1..MaxPageLen

\* What fetchPage(page, perPage) resolves to when the provider has n items
\* on that page: the items are identified by page and position.
Page(page, n) == [i \in 1..n |-> <<page, i>>]

\* `items.length < perPage`
ShortPage_onlyEmpty(items, size) == Len(items) = 0

ShortPage(items, size) == Len(items) < size

PaginationIdle(perPages) ==
    /\ perPage \in perPages
    /\ iterator = [currentPage |-> 1, currentItems |-> <<>>, hasMore |-> TRUE]
    /\ ipc = <<>>
    /\ ilog = [requested |-> <<>>, fetched |-> <<>>, returned |-> <<>>, rejected |-> <<>>,
               resets |-> 0, run |-> [requested |-> 0, fetched |-> 0, rejected |-> 0],
               sequential |-> TRUE]
    /\ generator = [page |-> 1, hasMore |-> TRUE, items |-> <<>>, index |-> 0]
    /\ gpc = "start"
    /\ glog = [requested |-> <<>>, fetched |-> <<>>, yielded |-> <<>>]

\* The next() calls made so far: those that returned, those that rejected
\* and those still suspended.
NextCalls == Len(ilog.returned) + Len(ilog.rejected) + Len(ipc)

\* When a call is made: how many fetches have resolved, how many had at
\* construction or the latest reset(), and how many have rejected.
CallTime ==
    [after |-> Len(ilog.fetched), base |-> ilog.run.fetched, failed |-> Len(ilog.rejected)]

\* PaginatedIterator.next() is called, whether or not an earlier next() is
\* still suspended: without more pages it returns false at once; otherwise
\* fetchPage(currentPage, perPage) is called and next() suspends on the
\* await.
IteratorNext ==
    /\ NextCalls < MaxNextCalls
    /\ IF ~iterator.hasMore
       THEN /\ ilog' = [ilog EXCEPT
                        !.returned = Append(@, [value |-> FALSE, fetched |-> FALSE,
                                                current |-> iterator.currentItems,
                                                at |-> CallTime]),
                        !.sequential = @ /\ ipc = <<>>]
            /\ UNCHANGED ipc
       ELSE /\ ilog' = [ilog EXCEPT
                        !.requested = Append(@, [page |-> iterator.currentPage, at |-> CallTime]),
                        !.sequential = @ /\ ipc = <<>>]
            /\ ipc' = Append(ipc, [page |-> iterator.currentPage, at |-> CallTime])
    /\ UNCHANGED <<perPage, iterator, generator, gpc, glog>>

\* The fetchPage of the i-th suspended next() resolves with n items of the
\* page it asked for: next() stores them, advances the page, clears hasMore
\* after a short page and returns items.length > 0.
IteratorFetched(i, n) ==
    /\ i \in 1..Len(ipc)
    /\ LET items == Page(ipc[i].page, n)
       IN  /\ iterator' = [currentPage |-> iterator.currentPage + 1,
                           currentItems |-> items,
                           hasMore |-> IF ShortPage(items, perPage)
                                       THEN FALSE ELSE iterator.hasMore]
           /\ ilog' = [ilog EXCEPT
                        !.fetched = Append(@, items),
                        !.returned = Append(@, [value |-> n > 0, fetched |-> TRUE,
                                                current |-> items, at |-> ipc[i].at])]
    /\ ipc' = SubSeq(ipc, 1, i - 1) \o SubSeq(ipc, i + 1, Len(ipc))
    /\ UNCHANGED <<perPage, generator, gpc, glog>>

\* The fetchPage of the i-th suspended next() rejects: the await throws,
\* next() rejects with that error and the iterator is left as it was.
IteratorRejected(i) ==
    /\ i \in 1..Len(ipc)
    /\ ilog' = [ilog EXCEPT !.rejected = Append(@, ipc[i])]
    /\ ipc' = SubSeq(ipc, 1, i - 1) \o SubSeq(ipc, i + 1, Len(ipc))
    /\ UNCHANGED <<perPage, iterator, generator, gpc, glog>>

\* PaginatedIterator.reset(), whether or not a next() is suspended.
IteratorReset ==
    /\ ilog.resets < MaxResets
    /\ iterator' = [currentPage |-> 1, currentItems |-> <<>>, hasMore |-> TRUE]
    /\ ilog' = [ilog EXCEPT
                    !.resets = @ + 1,
                    !.run = [requested |-> Len(ilog.requested), fetched |-> Len(ilog.fetched),
                             rejected |-> Len(ilog.rejected)],
                    !.sequential = (ipc = <<>>)]
    /\ UNCHANGED <<perPage, ipc, generator, gpc, glog>>

\* listAll: the head of `while (hasMore)`: the loop ends or the next page
\* is requested and the generator suspends on the await.
ListAllLoop(g, lg) ==
    IF g.hasMore
    THEN /\ g.page <= MaxPages
         /\ generator' = g
         /\ gpc' = "fetching"
         /\ glog' = [lg EXCEPT !.requested = Append(@, g.page)]
    ELSE /\ generator' = g
         /\ gpc' = "done"
         /\ glog' = lg

\* The code after `for (const item of items)`.
ListAllAfterItems(g, lg) ==
    IF ShortPage(g.items, perPage)
    THEN ListAllLoop([g EXCEPT !.hasMore = FALSE], lg)
    ELSE ListAllLoop([g EXCEPT !.page = @ + 1], lg)

\* The consumer asks the generator for the first item.
ListAllStart ==
    /\ gpc = "start"
    /\ ListAllLoop(generator, glog)
    /\ UNCHANGED <<perPage, iterator, ipc, ilog>>

\* fetchPage resolves with n items: the first one is yielded, or with no
\* item the loop goes on.
ListAllFetched(n) ==
    /\ gpc = "fetching"
    /\ LET items == Page(generator.page, n)
           g == [generator EXCEPT !.items = items, !.index = 1]
       IN  IF n > 0
           THEN /\ generator' = g
                /\ gpc' = "yielded"
                /\ glog' = [glog EXCEPT !.fetched = Append(@, items),
                                        !.yielded = Append(@, items[1])]
           ELSE ListAllAfterItems(g, [glog EXCEPT !.fetched = Append(@, items)])
    /\ UNCHANGED <<perPage, iterator, ipc, ilog>>

\* fetchPage rejects: the await throws out of the generator, which ends
\* with that error.
ListAllRejected ==
    /\ gpc = "fetching"
    /\ gpc' = "failed"
    /\ UNCHANGED <<perPage, iterator, ipc, ilog, generator, glog>>

\* The consumer asks for the next item: the next one of the page is
\* yielded, or the page is finished and the loop goes on.
ListAllResume ==
    /\ gpc = "yielded"
    /\ IF generator.index < Len(generator.items)
       THEN /\ generator' = [generator EXCEPT !.index = @ + 1]
            /\ glog' = [glog EXCEPT !.yielded = Append(@, generator.items[generator.index + 1])]
            /\ UNCHANGED gpc
       ELSE ListAllAfterItems(generator, glog)
    /\ UNCHANGED <<perPage, iterator, ipc, ilog>>

(***************************************************************************)
(* Specifications                                                          *)
(***************************************************************************)
\* One withRetry execution over an arbitrary fn.
RetryInit ==
    /\ now = 0 /\ ticks = 0
    /\ RetryIdle(RetryConfigs)
    /\ AuthIdle({Undefined})
    /\ LimiterIdle({"queue"})
    /\ MakeRequestIdle
    /\ DeduplicatorIdle
    /\ PaginationIdle({DefaultPerPage})

RetryNext ==
    \/ RetryStart(1) /\ UNCHANGED <<ticks, authVars, limVars, mrVars, dedupVars, pgVars>>
    \/ AttemptReturns(1) /\ UNCHANGED <<ticks, authVars, limVars, mrVars, dedupVars, pgVars>>
    \/ AttemptThrows(1) /\ UNCHANGED <<ticks, authVars, limVars, mrVars, dedupVars, pgVars>>
    \/ SleepDone(1) /\ UNCHANGED <<ticks, authVars, limVars, mrVars, dedupVars, pgVars>>

SpecRetry == RetryInit /\ [][RetryNext]_vars

\* Concurrent getToken(), refreshToken(), authenticate() and clearTokens()
\* calls on one OAuthManager whose store may be preloaded.
AuthInit ==
    /\ now = 0 /\ ticks = 0
    /\ RetryIdle({DEFAULT_RETRY_CONFIG})
    /\ AuthIdle(Opt(InitialTokens))
    /\ LimiterIdle({"queue"})
    /\ MakeRequestIdle
    /\ DeduplicatorIdle
    /\ PaginationIdle({DefaultPerPage})

AuthNext ==
    \/ \E p \in AuthProcs, op \in {"getToken", "refreshToken"} :
            OAuthCall(p, op) /\ UNCHANGED <<ticks, retryVars, limVars, mrVars, dedupVars, pgVars>>
    \/ \E p \in AuthProcs : GetTokenResume(p) /\ UNCHANGED <<ticks, retryVars, limVars, mrVars, dedupVars, pgVars>>
    \/ \E p \in AuthProcs : RefreshTokenResume(p) /\ UNCHANGED <<ticks, retryVars, limVars, mrVars, dedupVars, pgVars>>
    \/ \E p \in AuthProcs, exp \in ResponseExpiresAt, ath \in ResponseAthlete :
            RefreshSucceeds(p, exp, ath) /\ UNCHANGED <<ticks, retryVars, limVars, mrVars, dedupVars, pgVars>>
    \/ \E p \in AuthProcs : ReturnRefreshed(p) /\ UNCHANGED <<ticks, retryVars, limVars, mrVars, dedupVars, pgVars>>
    \/ \E p \in AuthProcs, status \in {400} :
            RefreshFails(p, status) /\ UNCHANGED <<ticks, retryVars, limVars, mrVars, dedupVars, pgVars>>
    \/ \E p \in AuthProcs : RethrowAfterClear(p) /\ UNCHANGED <<ticks, retryVars, limVars, mrVars, dedupVars, pgVars>>
    \/ \E p \in AuthProcs : Authenticate(p) /\ UNCHANGED <<ticks, retryVars, limVars, mrVars, dedupVars, pgVars>>
    \/ \E p \in AuthProcs, exp \in ResponseExpiresAt, ath \in ResponseAthlete :
            ExchangeSucceeds(p, exp, ath) /\ UNCHANGED <<ticks, retryVars, limVars, mrVars, dedupVars, pgVars>>
    \/ \E p \in AuthProcs, status \in {400} :
            ExchangeFails(p, status) /\ UNCHANGED <<ticks, retryVars, limVars, mrVars, dedupVars, pgVars>>
    \/ \E p \in AuthProcs : ClearTokens(p) /\ UNCHANGED <<ticks, retryVars, limVars, mrVars, dedupVars, pgVars>>
    \/ \E p \in AuthProcs : ClearTokensReturn(p) /\ UNCHANGED <<ticks, retryVars, limVars, mrVars, dedupVars, pgVars>>
    \/ AuthAdvance /\ UNCHANGED <<ticks, retryVars, limVars, mrVars, dedupVars, pgVars>>

SpecAuth == AuthInit /\ [][AuthNext]_vars

\* Concurrent request() calls through one RateLimiter whose strategy the
\* caller may change at any time, without a deduplicator and with a single
\* attempt each.
SingleAttempt == [DEFAULT_RETRY_CONFIG EXCEPT !.maxAttempts = 1]

LimiterInit ==
    /\ now = 0 /\ ticks = 0
    /\ RetryIdle({SingleAttempt})
    /\ AuthIdle({Undefined})
    /\ LimiterIdle(Strategies)
    /\ MakeRequestIdle
    /\ DeduplicatorIdle
    /\ PaginationIdle({DefaultPerPage})

\* Call ids are interchangeable: they are taken in increasing order.
InOrder(c) == \A d \in Calls : d < c => rpc[d] # "idle"

LimiterTimeSteps == {PollInterval, ShortTermWindow + 1}

LimiterStart(c) == InOrder(c) /\ RequestStart(c) /\ UNCHANGED <<ticks, authVars, dedupVars, pgVars>>
LimiterRefused(c) == RequestRefused(c) /\ UNCHANGED <<ticks, authVars, dedupVars, pgVars>>
LimiterPoll(c) == PollWake(c) /\ UNCHANGED <<ticks, authVars, dedupVars, pgVars>>
LimiterStatuses == {200, 503}
LimiterResponse(c) ==
    \E status \in LimiterStatuses, h \in HeaderSets :
        FetchResponds(c, status, h, Undefined) /\ UNCHANGED <<ticks, authVars, dedupVars, pgVars>>
LimiterBody(c) ==
    \E rawData \in Opt({IdBody}) :
        BodyRead(c, rawData) /\ UNCHANGED <<ticks, authVars, dedupVars, pgVars>>
LimiterFetch(c) == IssueFetch(c) /\ UNCHANGED <<ticks, authVars, dedupVars, pgVars>>
LimiterReject(c) == FetchRejects(c) /\ UNCHANGED <<ticks, authVars, dedupVars, pgVars>>
LimiterSetStrategy ==
    \E s \in Strategies : setStrategy(s) /\ UNCHANGED <<ticks, retryVars, authVars, dedupVars, pgVars>>
LimiterAdvance ==
    \E d \in LimiterTimeSteps : Advance(d) /\ UNCHANGED <<retryVars, authVars, limVars, mrVars, dedupVars, pgVars>>

LimiterNext ==
    \/ \E c \in Calls : LimiterStart(c)
    \/ \E c \in Calls : LimiterFetch(c)
    \/ \E c \in Calls : LimiterRefused(c)
    \/ \E c \in Calls : LimiterPoll(c)
    \/ \E c \in Calls : LimiterResponse(c)
    \/ \E c \in Calls : LimiterBody(c)
    \/ \E c \in Calls : LimiterReject(c)
    \/ LimiterSetStrategy
    \/ LimiterAdvance

SpecLimiter == LimiterInit /\ [][LimiterNext]_vars

\* The same, where time keeps advancing, every fetch() in flight settles
\* and every timer and continuation of the library runs; whether further
\* request() calls arrive is left to the caller.
FairSpecLimiter ==
    /\ SpecLimiter
    /\ WF_vars(LimiterAdvance)
    /\ \A c \in Calls :
          /\ WF_vars(LimiterResponse(c) \/ LimiterReject(c))
          /\ WF_vars(LimiterBody(c))
          /\ WF_vars(LimiterPoll(c))
          /\ WF_vars(LimiterFetch(c))
          /\ WF_vars(LimiterRefused(c))

\* The RateLimiter driven through waitForAvailability, updateFromHeaders,
\* processQueue and getRateLimitInfo while its strategy stays the queue
\* strategy (changes of strategy are exercised in SpecLimiter).
QueueInit ==
    /\ now = 0 /\ ticks = 0
    /\ RetryIdle({SingleAttempt})
    /\ AuthIdle({Undefined})
    /\ LimiterIdle({"queue"})
    /\ MakeRequestIdle
    /\ DeduplicatorIdle
    /\ PaginationIdle({DefaultPerPage})

WaitInOrder(c) == mpc[c] = "idle" /\ \A d \in Calls : d < c => mpc[d] # "idle"

QueueWait(c) ==
    /\ WaitInOrder(c)
    /\ waitForAvailability(c, now)
    /\ UNCHANGED <<now, ticks, retryVars, authVars, dedupVars, pgVars>>
QueueUpdate ==
    /\ Len(shortTermRequests) < MaxRecorded /\ Len(dailyRequests) < MaxRecorded
    /\ \E h \in HeaderSets : UpdateFromHeadersCall(h)
    /\ UNCHANGED <<ticks, retryVars, authVars, dedupVars, pgVars>>
QueueProcess == ProcessQueueCall /\ UNCHANGED <<ticks, retryVars, authVars, dedupVars, pgVars>>
QueueRead == GetRateLimitInfoCall /\ UNCHANGED <<ticks, retryVars, authVars, dedupVars, pgVars>>
QueueCan == CanMakeRequestCall /\ UNCHANGED <<ticks, retryVars, authVars, dedupVars, pgVars>>

QueueNext ==
    \/ \E c \in Calls : QueueWait(c)
    \/ QueueUpdate
    \/ QueueProcess
    \/ QueueRead
    \/ QueueCan
    \/ LimiterAdvance

SpecQueue == QueueInit /\ [][QueueNext]_vars

\* Callers of getOrCreate whose factory is withRetry over an arbitrary fn
\* with a single attempt: the promise settles with fn's first result.
DedupInit ==
    /\ now = 0 /\ ticks = 0
    /\ RetryIdle({SingleAttempt})
    /\ AuthIdle({Undefined})
    /\ LimiterIdle({"queue"})
    /\ MakeRequestIdle
    /\ DeduplicatorIdle
    /\ PaginationIdle({DefaultPerPage})

DedupTimeSteps == {1, windowMs - 1}

HandleInOrder(r) == \A d \in Calls : d < r => handle[d] # NoHandle

DedupCall(r) ==
    /\ HandleInOrder(r)
    /\ \E config \in RequestConfigs : getOrCreate(r, config)
    /\ IF FactoryInvoked(r) THEN RetryStart(r) ELSE UNCHANGED <<now, retryVars>>
    /\ UNCHANGED <<ticks, authVars, limVars, mrVars, pgVars>>
DedupFulfil(c) == AttemptReturns(c) /\ UNCHANGED <<ticks, authVars, limVars, mrVars, dedupVars, pgVars>>
DedupReject(c) ==
    AttemptThrowsWith(c, Some(503), Undefined) /\ UNCHANGED <<ticks, authVars, limVars, mrVars, dedupVars, pgVars>>
DedupCleanup == Cleanup /\ UNCHANGED <<ticks, retryVars, authVars, limVars, mrVars, pgVars>>
DedupDestroy == destroys < 1 /\ Destroy /\ UNCHANGED <<ticks, retryVars, authVars, limVars, mrVars, pgVars>>
DedupAdvance ==
    \E d \in DedupTimeSteps : Advance(d) /\ UNCHANGED <<retryVars, authVars, limVars, mrVars, dedupVars, pgVars>>

DedupNext ==
    \/ \E r \in Calls : DedupCall(r)
    \/ \E c \in Calls : DedupFulfil(c)
    \/ \E c \in Calls : DedupReject(c)
    \/ DedupCleanup
    \/ DedupDestroy
    \/ DedupAdvance

SpecDedup == DedupInit /\ [][DedupNext]_vars

\* The callers of request() and getOrCreate.
Requesters == 1..MaxRequesters

\* A deduplicator used by the callers of request() and destroyed more
\* than once, with further getOrCreate calls after a destroy().
TeardownDestroy ==
    destroys < MaxDestroys /\ Destroy /\ UNCHANGED <<ticks, retryVars, authVars, limVars, mrVars, pgVars>>

TeardownNext ==
    \/ \E r \in Requesters : DedupCall(r)
    \/ \E c \in Requesters : DedupFulfil(c)
    \/ \E c \in Requesters : DedupReject(c)
    \/ DedupCleanup
    \/ TeardownDestroy
    \/ DedupAdvance

SpecTeardown == DedupInit /\ [][TeardownNext]_vars

\* getOrCreate calls for requests that differ in method, query or body,
\* all within one deduplication window.
KeyCall(r) ==
    /\ HandleInOrder(r)
    /\ \E config \in KeyConfigs : getOrCreate(r, config)
    /\ IF FactoryInvoked(r) THEN RetryStart(r) ELSE UNCHANGED <<now, retryVars>>
    /\ UNCHANGED <<ticks, authVars, limVars, mrVars, pgVars>>

KeyNext == \E r \in Requesters : KeyCall(r)

SpecKey == DedupInit /\ [][KeyNext]_vars

\* A PaginatedIterator whose next() and reset() are called at any time and
\* a listAll generator, over a fetchPage that resolves with 0 to MaxPageLen
\* items or rejects.
PaginationInit ==
    /\ now = 0 /\ ticks = 0
    /\ RetryIdle({SingleAttempt})
    /\ AuthIdle({Undefined})
    /\ LimiterIdle({"queue"})
    /\ MakeRequestIdle
    /\ DeduplicatorIdle
    /\ PaginationIdle(PerPages)

PageLengths == 0..MaxPageLen
OutsidePagination == <<now, ticks, retryVars, authVars, limVars, mrVars, dedupVars>>

PaginationNext ==
    \/ IteratorNext /\ UNCHANGED OutsidePagination
    \/ \E i \in 1..MaxNextCalls, n \in PageLengths :
            IteratorFetched(i, n) /\ UNCHANGED OutsidePagination
    \/ \E i \in 1..MaxNextCalls : IteratorRejected(i) /\ UNCHANGED OutsidePagination
    \/ IteratorReset /\ UNCHANGED OutsidePagination
    \/ ListAllStart /\ UNCHANGED OutsidePagination
    \/ \E n \in PageLengths : ListAllFetched(n) /\ UNCHANGED OutsidePagination
    \/ ListAllRejected /\ UNCHANGED OutsidePagination
    \/ ListAllResume /\ UNCHANGED OutsidePagination

SpecPagination == PaginationInit /\ [][PaginationNext]_vars

\* request() as StravaClient issues it: through the deduplicator and behind
\* the rate limiter, with retries configured to two attempts, while the
\* deduplicator's interval timer runs and StravaClient.destroy() may be
\* called once.
TwoAttempts == [DEFAULT_RETRY_CONFIG EXCEPT !.maxAttempts = 2]

RequestInit ==
    /\ now = 0 /\ ticks = 0
    /\ RetryIdle({TwoAttempts})
    /\ AuthIdle({Undefined})
    /\ LimiterIdle(Strategies)
    /\ MakeRequestIdle
    /\ DeduplicatorIdle
    /\ PaginationIdle({DefaultPerPage})

RequestStatuses == {200, 503}
RequestHeaderSets == {NoHeaders, Headers(Some(1), Some(1), Some(30000), Some(1))}

request_withoutDeduplicator(r, config) ==
    /\ handle[r] = NoHandle
    /\ handle' = [handle EXCEPT ![r] =
            Some([key |-> generateKey(config), promise |-> r, at |-> now, found |-> "new",
                  epoch |-> destroys, config |-> config])]
    /\ factoryLog' = Append(factoryLog,
            [key |-> generateKey(config), promise |-> r, at |-> now, epoch |-> destroys])
    /\ RequestStart(r)
    /\ UNCHANGED <<cache, cleanupInterval, nextSweep, destroys>>

\* `deduplicator.getOrCreate(method, path, query, body, () => withRetry(makeRequest, ...))`
request(r, config) ==
    /\ getOrCreate(r, config)
    /\ IF FactoryInvoked(r)
       THEN RequestStart(r)
       ELSE UNCHANGED <<now, retryVars, limVars, mrVars>>

RequestCall(r) ==
    /\ HandleInOrder(r)
    /\ \E config \in RequestConfigs : request(r, config)
    /\ UNCHANGED <<ticks, authVars, pgVars>>
RequestRetry(c) == RequestSleepDone(c) /\ UNCHANGED <<ticks, authVars, dedupVars, pgVars>>
RequestResponse(c) ==
    \E status \in RequestStatuses, h \in RequestHeaderSets :
        FetchResponds(c, status, h, Undefined) /\ UNCHANGED <<ticks, authVars, dedupVars, pgVars>>
\* The deduplicator's interval timer fires.
RequestCleanup == ~Resuming /\ DedupCleanup
RequestTimeSteps == {windowMs}
\* How often the clock is advanced by a whole window between steps of
\* request(); the sleeps and polls of the calls advance it further.
MaxRequestTicks == 1
RequestAdvance ==
    /\ ticks < MaxRequestTicks
    /\ \E d \in RequestTimeSteps : Advance(d)
    /\ UNCHANGED <<retryVars, authVars, limVars, mrVars, dedupVars, pgVars>>

RequestNext ==
    \/ \E r \in Requesters : RequestCall(r)
    \/ \E c \in Calls : LimiterFetch(c)
    \/ \E c \in Calls : RequestRetry(c)
    \/ \E c \in Calls : RequestResponse(c)
    \/ \E c \in Calls : LimiterBody(c)
    \/ \E c \in Calls : LimiterReject(c)
    \/ \E c \in Calls : LimiterRefused(c)
    \/ \E c \in Calls : LimiterPoll(c)
    \/ RequestCleanup
    \/ DedupDestroy
    \/ RequestAdvance

SpecRequest == RequestInit /\ [][RequestNext]_vars

\* One request() without deduplicator, under any of the retry
\* configurations, behind a limiter that admits it.
SingleInit ==
    /\ now = 0 /\ ticks = 0
    /\ RetryIdle(RetryConfigs)
    /\ AuthIdle({Undefined})
    /\ LimiterIdle({"queue"})
    /\ MakeRequestIdle
    /\ DeduplicatorIdle
    /\ PaginationIdle({DefaultPerPage})

SingleStart == RequestStart(1) /\ UNCHANGED <<ticks, authVars, dedupVars, pgVars>>
SingleResponse ==
    \E status \in ResponseStatuses, ra \in Opt(RetryAfterHeaders) :
        FetchResponds(1, status, NoHeaders, ra) /\ UNCHANGED <<ticks, authVars, dedupVars, pgVars>>
SingleBody ==
    \E rawData \in Opt(ResponseBodies) :
        BodyRead(1, rawData) /\ UNCHANGED <<ticks, authVars, dedupVars, pgVars>>
SingleFetch == IssueFetch(1) /\ UNCHANGED <<ticks, authVars, dedupVars, pgVars>>
SingleReject == FetchRejects(1) /\ UNCHANGED <<ticks, authVars, dedupVars, pgVars>>
SingleRetry == RequestSleepDone(1) /\ UNCHANGED <<ticks, authVars, dedupVars, pgVars>>

SingleNext ==
    \/ SingleStart
    \/ SingleFetch
    \/ SingleResponse
    \/ SingleBody
    \/ SingleReject
    \/ SingleRetry

SpecSingle == SingleInit /\ [][SingleNext]_vars

(***************************************************************************)
(* Claims on RequestDeduplicator                                           *)
(***************************************************************************)
\* The factory() invocations made for the key of caller r, not after r's
\* call, less than windowMs before it, and not wiped by a destroy() since.
LiveCreations(r) ==
    {i \in 1..Len(factoryLog) :
        /\ factoryLog[i].key = Val(handle[r]).key
        /\ factoryLog[i].promise <= r
        /\ factoryLog[i].epoch = Val(handle[r]).epoch
        /\ Val(handle[r]).at - factoryLog[i].at < windowMs}

Settled == {"returned", "thrown"}

\* C2: getOrCreate invokes factory at most once per key per window and
\* keeps at most one live entry per key. Every caller that arrives for a
\* key less than windowMs after the key's entry was created (the entry not
\* having been wiped by destroy()) receives the promise the first caller's
\* factory() returned, whether that promise is pending or already settled,
\* and no factory call is made for it; so two factory calls for one key on
\* one cache are at least windowMs apart.
C2_OneFactoryPerKeyPerWindow ==
    /\ \A r \in Calls : handle[r] # NoHandle =>
          \A i \in LiveCreations(r) : Val(handle[r]).promise = factoryLog[i].promise
    /\ \A i, j \in 1..Len(factoryLog) :
          (i < j /\ factoryLog[i].key = factoryLog[j].key
                 /\ factoryLog[i].epoch = factoryLog[j].epoch)
             => factoryLog[j].at - factoryLog[i].at >= windowMs

\* A caller was handed, 4999 ms after the entry was created, the promise of
\* an earlier caller that had already settled.
C2_Witness ==
    \E r \in Calls :
        /\ handle[r] # NoHandle
        /\ Val(handle[r]).promise # r
        /\ Val(handle[r]).found \in Settled
        /\ \E i \in LiveCreations(r) : Val(handle[r]).at - factoryLog[i].at = windowMs - 1

\* The factory() invocations made for the key of caller r before r's call.
EarlierCreations(r) ==
    {i \in 1..Len(factoryLog) :
        factoryLog[i].key = Val(handle[r]).key /\ factoryLog[i].promise < r}

\* The last factory() invocation made for key k.
LastCreation(k) ==
    factoryLog[CHOOSE i \in 1..Len(factoryLog) :
        /\ factoryLog[i].key = k
        /\ \A j \in 1..Len(factoryLog) : factoryLog[j].key = k => j <= i]

\* C15: a getOrCreate call for a key whose entry has age >= windowMs
\* (windowMs itself included) is not served the old promise: factory is
\* invoked again, for a new and independent execution, and the entry of
\* the key holds the new promise with the new timestamp.
C15_ExpiredEntryIsReplaced ==
    /\ \A r \in Calls : handle[r] # NoHandle =>
          ((\A i \in EarlierCreations(r) : Val(handle[r]).at - factoryLog[i].at >= windowMs)
              => /\ Val(handle[r]).promise = r
                 /\ Val(handle[r]).found = "new"
                 /\ \E j \in 1..Len(factoryLog) :
                       /\ factoryLog[j].promise = r
                       /\ factoryLog[j].key = Val(handle[r]).key
                       /\ factoryLog[j].at = Val(handle[r]).at)
    /\ \A k \in Keys : cache[k] # Undefined =>
          Val(cache[k]) = [promise |-> LastCreation(k).promise, timestamp |-> LastCreation(k).at]

\* A caller arrived exactly windowMs after the entry of its key was
\* created, the entry being still in the cache (no sweep, no destroy), and
\* was given a promise of its own, which the entry now holds.
C15_Witness ==
    \E r \in Calls :
        /\ handle[r] # NoHandle
        /\ Val(handle[r]).promise = r
        /\ \E i \in EarlierCreations(r) : Val(handle[r]).at - factoryLog[i].at = windowMs
        /\ destroys = 0 /\ nextSweep = windowMs
        /\ cache[Val(handle[r]).key] = Some([promise |-> r, timestamp |-> Val(handle[r]).at])

EmptyCache == \A k \in Keys : cache[k] = Undefined

\* Every entry the cache holds was stored after the latest destroy(), and
\* once destroy() was called the timer is cleared.
DestroyedState ==
    /\ \A k \in Keys :
            cache[k] # Undefined => Val(handle[Val(cache[k]).promise]).epoch = destroys
    /\ destroys >= 1 => ~cleanupInterval

DestroyStep ==
    \* destroy() leaves no entry and no timer
    /\ destroys' > destroys => (EmptyCache' /\ ~cleanupInterval')
    \* after destroy() the sweep does not run: the timer stays cleared, is
    \* not re-armed, and entries leave the cache only through destroy()
    /\ destroys >= 1 =>
            /\ ~cleanupInterval' /\ nextSweep' = nextSweep
            /\ destroys' = destroys =>
                    \A k \in Keys : cache[k] # Undefined => cache'[k] # Undefined
    \* destroy() on what destroy() left changes nothing
    /\ (destroys >= 1 /\ destroys' > destroys /\ EmptyCache) =>
            UNCHANGED <<cache, cleanupInterval, nextSweep, handle, factoryLog>>

\* C22: destroy() leaves the deduplicator without entries and without
\* timer; from then on the periodic sweep never runs (no entry stored
\* before the latest destroy() is in the cache, the timer stays cleared
\* and no entry is evicted by a sweep), and a further destroy() on the
\* state destroy() left changes nothing.
C22_DestroyClearsAndStopsSweep == []DestroyedState /\ [][DestroyStep]_vars

\* destroy() was called twice; an entry had been stored before the first
\* call, another one after it, and a sweep would have been due since.
C22_Witness ==
    /\ destroys = 2 /\ EmptyCache /\ ~cleanupInterval
    /\ now >= nextSweep
    /\ \E r, q \in Calls :
            /\ handle[r] # NoHandle /\ Val(handle[r]).epoch = 0 /\ Val(handle[r]).found = "new"
            /\ handle[q] # NoHandle /\ Val(handle[q]).epoch = 1 /\ Val(handle[q]).found = "new"

Handled(r) == handle[r] # NoHandle
Asked(r) == Val(handle[r]).config
RangeOf(seq) == {seq[i] : i \in 1..Len(seq)}

\* The two requests have the same method, path and body and the same
\* query parameters, whatever the insertion order.
EqualUpToOrder(a, b) ==
    /\ a.method = b.method /\ a.path = b.path /\ a.body = b.body
    /\ (a.query = Undefined) = (b.query = Undefined)
    /\ a.query # Undefined => RangeOf(Val(a.query)) = RangeOf(Val(b.query))

\* The two requests are sent alike: same method and path, the same
\* parameters in the URL and the same body text.
SameSent(a, b) ==
    /\ a.method = b.method /\ a.path = b.path
    /\ RangeOf(buildQueryString(a.query)) = RangeOf(buildQueryString(b.query))
    /\ SentBody(a) = SentBody(b)

\* C23 (as claimed): the key is a function of (method, path, query, body)
\* that does not depend on the insertion order of the query parameters;
\* two requests get the same key only if their method, path, query
\* parameters and body are equal (here: only if they are even sent
\* alike), so that no caller is handed the promise made for a different
\* request.
C23_KeyIdentifiesRequest ==
    \A r, q \in Calls :
        (Handled(r) /\ Handled(q)) =>
            /\ EqualUpToOrder(Asked(r), Asked(q)) => Val(handle[r]).key = Val(handle[q]).key
            /\ Val(handle[r]).key = Val(handle[q]).key => SameSent(Asked(r), Asked(q))
            /\ Val(handle[r]).promise = Val(handle[q]).promise => SameSent(Asked(r), Asked(q))

(***************************************************************************)
(* Claims on PaginatedIterator and listAll                                 *)
(***************************************************************************)
\* The pages 1, 2, 3, ... in increasing order, without gap or repeat.
Counting(pages) == \A i \in 1..Len(pages) : pages[i] = i

\* Every fetch answers the latest request, and no page was requested after
\* a page that came back with fewer than perPage items.
NoRequestAfterShort(lg) ==
    /\ Len(lg.fetched) \in {Len(lg.requested), Len(lg.requested) - 1}
    /\ \A i \in 1..Len(lg.fetched) :
            Len(lg.fetched[i]) < perPage => Len(lg.requested) = i

RECURSIVE FlattenFrom(_, _)
FlattenFrom(pages, i) ==
    IF i > Len(pages) THEN <<>> ELSE pages[i] \o FlattenFrom(pages, i + 1)

IsPrefix(a, b) == Len(a) <= Len(b) /\ \A i \in 1..Len(a) : a[i] = b[i]

\* The number of next() calls among the first j returns that fetched a
\* page.
FetchesAmong(j) == Cardinality({i \in 1..j : ilog.returned[i].fetched})

\* Whether a page of fewer than perPage items came back between
\* construction or the latest reset() and the call made at `at`.
ShortSince(at) == \E k \in (at.base + 1)..at.after : Len(ilog.fetched[k]) < perPage

\* The generator requests 1, 2, 3, ..., yields the fetched items in order
\* and ends after the first short page, or with the error of a fetchPage
\* that rejected.
ListAllInOrder ==
    /\ Counting(glog.requested) /\ NoRequestAfterShort(glog)
    /\ IsPrefix(glog.yielded, FlattenFrom(glog.fetched, 1))
    /\ gpc \in {"fetching", "done", "failed"} => glog.yielded = FlattenFrom(glog.fetched, 1)
    /\ gpc = "done" => Len(glog.fetched[Len(glog.fetched)]) < perPage
    /\ gpc = "failed" => Len(glog.requested) = Len(glog.fetched) + 1

\* C24 (as claimed): PaginatedIterator.next() and listAll request the
\* pages 1, 2, 3, ... in increasing order without gaps or repeats, deliver
\* the items of every fetched page in order, and request no page after one
\* that returned fewer than perPage items; once a short page was
\* delivered, next() returns false without fetching.
C24_PagesInOrderUntilShortPage ==
    /\ \A i \in 1..Len(ilog.requested) :
            /\ ilog.requested[i].page = i
            /\ \A k \in 1..ilog.requested[i].at.after : Len(ilog.fetched[k]) >= perPage
    /\ \A j \in 1..Len(ilog.returned) :
            LET r == ilog.returned[j]
            IN  /\ r.fetched => r.current = ilog.fetched[FetchesAmong(j)]
                /\ (\E k \in 1..r.at.after : Len(ilog.fetched[k]) < perPage) =>
                        ~r.fetched /\ r.value = FALSE
    /\ ListAllInOrder

\* The pages requested since construction or the latest reset().
RunRequested == SubSeq(ilog.requested, ilog.run.requested + 1, Len(ilog.requested))

\* Every next() that fetches asks for page 1 + the number of fetches that
\* resolved since construction or the latest reset(), and none does once a
\* short page came back since then; so does a next() whose fetch rejected.
EveryRequest ==
    /\ \A i \in 1..Len(ilog.requested) :
          LET r == ilog.requested[i]
          IN  /\ r.page = 1 + r.at.after - r.at.base
              /\ ~ShortSince(r.at)
    /\ \A i \in 1..Len(ilog.rejected) :
          \E k \in 1..Len(ilog.requested) : ilog.requested[k] = ilog.rejected[i]

\* What every next() returned: false without a fetch once a short page
\* came back since construction or the latest reset(), otherwise the
\* fetched items as `current` and whether there are any.
NextResults ==
    \A j \in 1..Len(ilog.returned) :
        LET r == ilog.returned[j]
        IN  IF ShortSince(r.at)
            THEN ~r.fetched /\ r.value = FALSE
            ELSE /\ r.fetched
                 /\ r.current = ilog.fetched[FetchesAmong(j)]
                 /\ r.value = (Len(r.current) > 0)

\* While every next() is awaited before the next next() or reset(): the
\* i-th request since construction or the latest reset() asks for page i
\* less the number of requests that rejected since then, so that the pages
\* are 1, 2, 3, ... where the page whose fetch rejected is requested again;
\* `current` holds the page fetched last, or nothing before the first
\* fetch resolved.
SequentialRun ==
    ilog.sequential =>
        /\ Len(ipc) <= 1
        /\ \A i \in 1..Len(RunRequested) :
              RunRequested[i].page = i - (RunRequested[i].at.failed - ilog.run.rejected)
        /\ \A i \in 2..Len(RunRequested) :
              RunRequested[i].page =
                  IF RunRequested[i].at.failed > RunRequested[i - 1].at.failed
                  THEN RunRequested[i - 1].page
                  ELSE RunRequested[i - 1].page + 1
        /\ ipc = <<>> =>
                iterator.currentItems =
                    IF Len(ilog.fetched) > ilog.run.fetched
                    THEN ilog.fetched[Len(ilog.fetched)] ELSE <<>>

\* C24 amended: listAll requests the pages 1, 2, 3, ... without gaps or
\* repeats, yields the items of every fetched page in order and ends after
\* the first page of fewer than perPage items, or with the error of a
\* fetchPage that rejected. Every PaginatedIterator next() that fetches
\* requests page 1 + the number of fetches that resolved since construction
\* or the latest reset() and delivers the fetched items as `current`; once
\* a short page came back since then, next() returns false without
\* fetching. So, as long as each next() is awaited before the next call,
\* the iterator requests 1, 2, 3, ... in increasing order without gaps,
\* repeating a page only when its fetch rejected (a rejected fetch leaves
\* the iterator as it was); reset() starts again from page 1, and a next()
\* called while another is suspended requests the same page again.
C24_PagesInOrderSinceReset ==
    /\ EveryRequest /\ NextResults /\ SequentialRun
    /\ iterator.currentPage = 1 + Len(ilog.fetched) - ilog.run.fetched
    /\ iterator.hasMore = ~ShortSince([after |-> Len(ilog.fetched), base |-> ilog.run.fetched])
    /\ ListAllInOrder

\* With perPage = 2: the iterator fetched a full first page and was reset;
\* the fetch of its next next() rejected, the following next() requested
\* page 1 again and delivered one item, and the next() after that returned
\* false without a fetch, every call awaited; listAll yielded the three
\* items of two pages and ended.
C24_Witness ==
    /\ perPage = 2
    /\ ilog.resets = 1 /\ ilog.run.requested = 1 /\ ilog.sequential /\ ipc = <<>>
    /\ [i \in 1..Len(ilog.requested) |-> ilog.requested[i].page] = <<1, 1, 1>>
    /\ Len(ilog.rejected) = 1 /\ ilog.rejected[1] = ilog.requested[2]
    /\ ilog.fetched = <<Page(1, 2), Page(1, 1)>>
    /\ Len(ilog.returned) = 3
    /\ ilog.returned[2].value /\ ilog.returned[2].current = Page(1, 1)
    /\ ~ilog.returned[3].value /\ ~ilog.returned[3].fetched
    /\ ilog.returned[3].current = Page(1, 1)
    /\ gpc = "done"
    /\ glog.requested = <<1, 2>>
    /\ glog.yielded = <<<<1, 1>>, <<1, 2>>, <<2, 1>>>>

(***************************************************************************)
(* Claims on request()                                                     *)
(***************************************************************************)
\* The callers of the window opened by the i-th factory() invocation: they
\* asked for its key less than windowMs after it.
Sharers(i) == {r \in Calls : handle[r] # NoHandle /\ i \in LiveCreations(r)}

\* What caller r's promise has settled with.
CallerOutcome(r) == outcome[Val(handle[r]).promise]

SameOutcome(i) ==
    \A r \in Sharers(i) :
        /\ Val(handle[r]).promise = factoryLog[i].promise
        /\ CallerOutcome(r) = outcome[factoryLog[i].promise]

\* C1 as stated: for the identical requests issued within one deduplication
\* window exactly one network call is issued in total, and every caller
\* receives the identical value or failure.
C1_ExactlyOneNetworkCall ==
    \A i \in 1..Len(factoryLog) :
        /\ SameOutcome(i)
        /\ rpc[factoryLog[i].promise] \in Settled => netCalls[factoryLog[i].promise] = 1

\* C1 amended: the identical requests issued within one deduplication
\* window, with no destroy() of the deduplicator between them, share one
\* execution of withRetry, which issues one network call per attempt that
\* the rate limiter admits, at most maxAttempts in total and at least one
\* if it succeeds; every caller receives that execution's value or
\* failure.
C1_OneRetriedExecutionPerWindow ==
    \A i \in 1..Len(factoryLog) :
        LET p == factoryLog[i].promise
        IN  /\ SameOutcome(i)
            /\ netCalls[p] <= attempt[p]
            /\ netCalls[p] <= rconfig.maxAttempts
            /\ rpc[p] = "returned" => netCalls[p] >= 1

\* Two callers share an execution that settled after two network calls.
C1_Witness ==
    \E i \in 1..Len(factoryLog) :
        /\ rpc[factoryLog[i].promise] \in Settled
        /\ netCalls[factoryLog[i].promise] = 2
        /\ \E r \in Sharers(i) :
              r # factoryLog[i].promise /\ Val(handle[r]).promise = factoryLog[i].promise

(***************************************************************************)
(* Claims on withRetry                                                     *)
(***************************************************************************)
NonRetryable(e) ==
    /\ ~e.ok
    /\ e.statusCode # Undefined
    /\ Val(e.statusCode) \notin rconfig.retryableStatusCodes

\* C9: a failure whose status code is not in retryableStatusCodes is the
\* last invocation of fn(): withRetry has raised that very failure, no
\* sleep followed it (one delay per earlier failure only) and no further
\* attempt was made, whatever the attempt number at which it occurred.
C9_NonRetryablePropagatesAtOnce ==
    \A i \in 1..Len(log[1]) :
        NonRetryable(log[1][i]) =>
            /\ i = Len(log[1])
            /\ rpc[1] = "thrown"
            /\ outcome[1] = [kind |-> "thrown", value |-> Some(log[1][i])]
            /\ Len(delays[1]) = i - 1

\* A non-retryable failure occurred on a second or later attempt, with
\* attempts still left, and was raised.
C9_Witness ==
    /\ Len(log[1]) = 2
    /\ NonRetryable(log[1][2])
    /\ rconfig.maxAttempts > 2
    /\ rpc[1] = "thrown"

\* C10: fn() is invoked at most maxAttempts times; once withRetry has
\* raised after at least one attempt, the value raised is the failure of
\* the last attempt, and nothing is returned unless an attempt succeeded.
C10_BoundedAttemptsLastFailure ==
    /\ Len(log[1]) <= rconfig.maxAttempts
    /\ (rpc[1] \in {"running", "sleeping"}) => attempt[1] <= rconfig.maxAttempts
    /\ (rpc[1] = "thrown" /\ Len(log[1]) >= 1) =>
            outcome[1] = [kind |-> "thrown", value |-> Some(log[1][Len(log[1])])]
    /\ (rpc[1] = "returned") =>
            /\ log[1][Len(log[1])].ok
            /\ outcome[1].value = Some(log[1][Len(log[1])])

\* All maxAttempts (three) attempts failed with retryable failures, the
\* last one different from the first, and withRetry has raised.
C10_Witness ==
    /\ rconfig.maxAttempts = 3
    /\ Len(log[1]) = 3
    /\ \A i \in 1..3 : ~log[1][i].ok /\ ~NonRetryable(log[1][i])
    /\ log[1][1].statusCode # log[1][3].statusCode
    /\ rpc[1] = "thrown"
\* The failures of call 1 that were followed by a sleep carried no hint.
NoHints == \A i \in 1..Len(delays[1]) : log[1][i].retryAfter = Undefined

Backoff(n) == Min(rconfig.initialDelay * Pow(rconfig.backoffFactor, n - 1), rconfig.maxDelay)

DelaysAsComputed ==
    /\ rconfig.maxAttempts >= 1 => Len(delays[1]) <= rconfig.maxAttempts - 1
    /\ \A n \in 1..Len(delays[1]) :
          /\ log[1][n].retryAfter = Undefined => delays[1][n] = Backoff(n)
          /\ delays[1][n] <= rconfig.maxDelay

NonDecreasing == \A n \in 2..Len(delays[1]) : delays[1][n - 1] <= delays[1][n]

\* C11 as stated: with no retry-after hint the delay slept after failed
\* attempt n (n = 1..maxAttempts-1) is min(initialDelay *
\* backoffFactor^(n-1), maxDelay); the delays of one call are
\* non-decreasing and never exceed maxDelay.
C11_BackoffNonDecreasing == DelaysAsComputed /\ (NoHints => NonDecreasing)

\* C11 amended: the same, the delays being non-decreasing when
\* backoffFactor >= 1 and initialDelay >= 0.
C11_BackoffAsComputed ==
    /\ DelaysAsComputed
    /\ (NoHints /\ rconfig.backoffFactor >= 1 /\ rconfig.initialDelay >= 0) => NonDecreasing

\* Two failures without hint were slept after, the second delay capped at
\* maxDelay.
C11_Witness ==
    /\ NoHints
    /\ rconfig.backoffFactor = 2 /\ rconfig.maxDelay = 1500
    /\ delays[1] = <<1000, 1500>>

\* The i-th failure of call 1 was followed by a sleep.
SleptAfter(i) == Len(delays[1]) >= i

\* C12: when a failure yields a retry-after hint of H seconds, H positive
\* (a 429 response carrying Retry-After: H), the delay before the next
\* attempt is min(H * 1000, maxDelay) whatever the attempt number, and not
\* the computed backoff.
C12_HintOverridesBackoff ==
    \A i \in 1..Len(delays[1]) :
        (/\ log[1][i].statusCode = Some(429)
         /\ log[1][i].retryAfter # Undefined
         /\ Val(log[1][i].retryAfter) > 0)
            => delays[1][i] = Min(Val(log[1][i].retryAfter) * 1000, rconfig.maxDelay)

\* Under the default configuration the first attempt was answered 429 with
\* Retry-After: 2 and the second 429 with Retry-After: 20: the delays were
\* 2000 ms, where the backoff is 1000 ms, and maxDelay = 10000 ms, where
\* the backoff is 2000 ms.
C12_Witness ==
    /\ rconfig = DEFAULT_RETRY_CONFIG
    /\ Len(log[1]) >= 2
    /\ log[1][1].statusCode = Some(429) /\ log[1][1].retryAfter = Some(2)
    /\ log[1][2].statusCode = Some(429) /\ log[1][2].retryAfter = Some(20)
    /\ delays[1] = <<2000, 10000>>

StatusLess(e) == ~e.ok /\ e.statusCode = Undefined

\* C13: a failure of a physical attempt that carries no status code (the
\* timeout abort, a network or parsing failure) is retried whatever
\* retryableStatusCodes is configured: while attempts are left a sleep of
\* the computed backoff follows it, and the last attempt's failure is
\* raised.
C13_StatusLessIsRetried ==
    \A i \in 1..Len(log[1]) :
        StatusLess(log[1][i]) =>
            IF i < rconfig.maxAttempts
            THEN SleptAfter(i) /\ delays[1][i] = Backoff(i)
            ELSE rpc[1] = "thrown" /\ outcome[1].value = Some(log[1][i])

\* A status-less failure was retried under a configuration that lists
\* only 404 and 503, and the next attempt has been answered.
C13_Witness ==
    /\ rconfig.retryableStatusCodes = {404, 503}
    /\ Len(log[1]) >= 2
    /\ StatusLess(log[1][1])
    /\ netCalls[1] >= 2

\* C14: every response with a 5xx status is classified as a server
\* failure (StravaServerError) and is retried under the default retry
\* configuration.
C14_Every5xxIsServerFailure ==
    \A i \in 1..Len(log[1]) :
        (~log[1][i].ok /\ log[1][i].statusCode # Undefined
                       /\ Val(log[1][i].statusCode) \in 500..599)
            => /\ errorName(Val(log[1][i].statusCode)) = "StravaServerError"
               /\ (rconfig = DEFAULT_RETRY_CONFIG /\ i < rconfig.maxAttempts) => SleptAfter(i)

\* The responses to call 1 were 503, 503 and 200, in that order.
TwoFailuresThenSuccess ==
    /\ Len(log[1]) = 3
    /\ log[1][1].statusCode = Some(503)
    /\ log[1][2].statusCode = Some(503)
    /\ log[1][3].ok

\* C19: withRetry stops at the first successful attempt and returns its
\* value; under the default configuration (maxAttempts 3, initialDelay
\* 1000, backoffFactor 2), when attempts 1 and 2 are answered 503 and
\* attempt 3 is answered 200, the call slept exactly 1000 ms and then
\* 2000 ms, issued exactly three network calls and resolved with the
\* third response's transformed body: {id: 42} for the body {"id": 42},
\* {maxWatts: 250} for the body {"max_watts": 250}, {aB: 2} for the body
\* {"a_b": 1, "aB": 2}.
C19_RetriesUntilFirstSuccess ==
    /\ \A i \in 1..Len(log[1]) :
          log[1][i].ok =>
              /\ i = Len(log[1])
              /\ rpc[1] = "returned"
              /\ outcome[1] = [kind |-> "returned", value |-> Some(log[1][i])]
    /\ (rconfig = DEFAULT_RETRY_CONFIG /\ TwoFailuresThenSuccess) =>
          /\ delays[1] = <<1000, 2000>>
          /\ netCalls[1] = 3
          /\ now >= 3000
          /\ outcome[1].kind = "returned"
          /\ log[1][3].body = Some(<<Member(<<"i", "d">>, 42)>>) =>
                Val(outcome[1].value).value = Some(<<Member(<<"i", "d">>, 42)>>)
          /\ log[1][3].body = Some(<<Member(<<"m", "a", "x", "_", "w", "a", "t", "t", "s">>, 250)>>) =>
                Val(outcome[1].value).value =
                    Some(<<Member(<<"m", "a", "x", "W", "a", "t", "t", "s">>, 250)>>)
          /\ log[1][3].body = Some(<<Member(<<"a", "_", "b">>, 1), Member(<<"a", "B">>, 2)>>) =>
                Val(outcome[1].value).value = Some(<<Member(<<"a", "B">>, 2)>>)

\* The scenario has run with the third response's body {"id": 42}.
C19_Witness ==
    /\ rconfig = DEFAULT_RETRY_CONFIG /\ TwoFailuresThenSuccess /\ rpc[1] = "returned"
    /\ log[1][3].body = Some(IdBody)

\* C29 (as claimed): for every retry configuration (maxAttempts = 0 and
\* maxAttempts = 1 included) a withRetry call that has completed has
\* invoked fn() at least once, and when it has raised, the value raised is
\* the failure of an attempt that ran.
C29_AtLeastOneAttempt ==
    (rpc[1] \in {"returned", "thrown"}) =>
        /\ Len(log[1]) >= 1
        /\ rpc[1] = "thrown" =>
                \E i \in 1..Len(log[1]) :
                    ~log[1][i].ok /\ outcome[1].value = Some(log[1][i])

\* C30 (as claimed): when the extractor yields a hint that is not
\* positive (zero or negative), the delay that follows is the exponential
\* backoff min(initialDelay * backoffFactor^(n-1), maxDelay) and not a value
\* derived from the hint; hence every delay lies between 0 and maxDelay.
C30_NonPositiveHintFallsBack ==
    \A n \in 1..Len(delays[1]) :
        /\ (log[1][n].retryAfter # Undefined /\ Val(log[1][n].retryAfter) <= 0)
                => delays[1][n] = Backoff(n)
        /\ 0 <= delays[1][n] /\ delays[1][n] <= rconfig.maxDelay

(***************************************************************************)
(* Claims on OAuthManager                                                  *)
(***************************************************************************)
\* The call p has read a record and has gone past the expiry check.
PastCheck(p) == otoken[p] # Undefined /\ opc[p] \notin {"idle", "await_get"}

\* The record read by p was more than 300 s from expiresAt at the check.
FreshAtCheck(p) == Val(otoken[p]).expiresAt > (ocheckedAt[p] \div 1000) + 300

C6_Outcome ==
    \A p \in AuthProcs :
        (oop[p] = "getToken" /\ PastCheck(p)) =>
            IF FreshAtCheck(p)
            THEN /\ opc[p] = "done"
                 /\ oresult[p] = [kind |-> "returned", value |-> otoken[p]]
                 /\ exchanges[p] = 0
                 /\ owrites[p] = <<>>
            ELSE /\ exchanges[p] = 1
                 /\ opc[p] = "done" =>
                        /\ oresult[p].kind = "returned"
                        /\ oresult[p].value # Undefined
                        /\ Val(oresult[p].value).accessToken # Val(otoken[p]).accessToken
                        /\ owrites[p] = <<oresult[p].value>>

C6_Persist ==
    \A p \in AuthProcs :
        (oop[p] = "getToken" /\ opc[p] = "refreshing" /\ opc'[p] = "await_set") =>
            /\ store' = oresult'[p].value
            /\ owrites'[p] = <<store'>>

\* C6: getToken returns a stored record with expiresAt > now + 300 as it
\* is, with no refresh exchange and no store write of its own; with
\* expiresAt <= now + 300 it performs exactly one refresh exchange, and
\* when that succeeds the refreshed record is written to the store and is
\* the record returned.
C6_GetTokenRefreshesOnExpiry == []C6_Outcome /\ [][C6_Persist]_vars

\* One call refreshed a record that was exactly at the buffer boundary
\* (expiresAt = now + 300) and a later call got the refreshed record as
\* stored, with no exchange.
C6_Witness ==
    \E p, q \in AuthProcs :
        /\ oop[p] = "getToken" /\ opc[p] = "done" /\ exchanges[p] = 1
        /\ Val(otoken[p]).expiresAt = (ocheckedAt[p] \div 1000) + 300
        /\ store = oresult[p].value
        /\ oop[q] = "getToken" /\ opc[q] = "done" /\ exchanges[q] = 0
        /\ otoken[q] = oresult[p].value
        /\ oresult[q].value = otoken[q]

C7_Cleared ==
    \A p \in AuthProcs :
        oop[p] = "getToken" =>
            /\ (opc[p] \in {"await_clear", "thrown"}) =>
                    exchanges[p] = 1 /\ owrites[p] = <<Undefined>>
            /\ (opc[p] = "done" /\ otoken[p] = Undefined) =>
                    /\ oresult[p] = [kind |-> "returned", value |-> Undefined]
                    /\ exchanges[p] = 0

C7_ClearThenThrow ==
    \A p \in AuthProcs :
        oop[p] = "getToken" =>
            /\ (opc[p] = "refreshing" /\ opc'[p] \notin {"refreshing", "await_set"}) =>
                    store' = Undefined /\ opc'[p] = "await_clear"
            /\ (opc[p] # "thrown" /\ opc'[p] = "thrown") => opc[p] = "await_clear"

\* C7: when the refresh exchange of getToken fails, tokenStore.clear() has
\* emptied the store before the error is rethrown, and a getToken call
\* that finds no record returns null without any exchange.
C7_FailedRefreshClearsStore == []C7_Cleared /\ [][C7_ClearThenThrow]_vars

\* A getToken call failed to refresh a stored record and raised; the store
\* is empty and another getToken call found no record and returned null.
C7_Witness ==
    \E p, q \in AuthProcs :
        /\ oop[p] = "getToken" /\ opc[p] = "thrown" /\ otoken[p] # Undefined
        /\ store = Undefined
        /\ oop[q] = "getToken" /\ opc[q] = "done" /\ otoken[q] = Undefined
        /\ oresult[q].value = Undefined /\ exchanges[q] = 0

\* C8 (as claimed): every call whose refresh exchange failed, refreshToken
\* included, has cleared the store before raising.
C8_AnyFailedRefreshClearsStore ==
    \A p \in AuthProcs :
        (opc[p] = "thrown" /\ exchanges[p] >= 1) => owrites[p] = <<Undefined>>
\* The record call p persisted last, the refresh response it came from
\* and the record the call had read from the store.
Persisted(p) == Val(owrites[p][Len(owrites[p])])
Response(p) == Val(oresponse[p])
OldRecord(p) == Val(otoken[p])

HasPersisted(p) ==
    /\ opc[p] \in {"await_set", "done"}
    /\ oresponse[p] # Undefined
    /\ owrites[p] # <<>>

\* C21 (as claimed): the record persisted by a refresh takes accessToken,
\* refreshToken, expiresAt and tokenType from the refresh response; its
\* athleteId and scope are those of the response when the response
\* supplies them, and those of the old record only when it omits them.
C21_ResponseFieldsTakePrecedence ==
    \A p \in AuthProcs :
        HasPersisted(p) =>
            /\ Persisted(p).accessToken = Response(p).accessToken
            /\ Persisted(p).refreshToken = Response(p).refreshToken
            /\ Persisted(p).expiresAt = Response(p).expiresAt
            /\ Persisted(p).tokenType = Response(p).tokenType
            /\ Persisted(p).athleteId =
                    IF Response(p).athleteId # Undefined
                    THEN Response(p).athleteId ELSE OldRecord(p).athleteId
            /\ Persisted(p).scope =
                    IF Response(p).scope # Undefined
                    THEN Response(p).scope ELSE OldRecord(p).scope

\* Every call is a getValidToken() call that found the token expired, did
\* its refresh exchange and has completed.
AllRefreshedAndCompleted ==
    \A p \in AuthProcs :
        /\ oop[p] = "getToken" /\ exchanges[p] = 1
        /\ opc[p] \in {"done", "thrown"}

\* The refresh exchange of call p succeeded and its record was persisted.
PersistedRecord(p) == \E i \in 1..Len(owrites[p]) : owrites[p][i] # Undefined

\* C27 (as claimed): when concurrent getValidToken() calls on an expired
\* token have all completed and the refresh of at least one of them
\* succeeded and persisted its record, the token store is not empty.
C27_FailedRefreshKeepsPersistedRecord ==
    (AllRefreshedAndCompleted /\ \E p \in AuthProcs : PersistedRecord(p))
        => store # Undefined

(***************************************************************************)
(* Claims on RateLimiter                                                   *)
(***************************************************************************)
\* The position of call c in a sequence of call ids (0 when absent).
Pos(seq, c) == IF \E i \in 1..Len(seq) : seq[i] = c
               THEN CHOOSE i \in 1..Len(seq) : seq[i] = c
               ELSE 0

InQueue(c) == \E i \in 1..Len(queue) : queue[i].id = c

\* C3 (as claimed): under the queue strategy no call has been admitted
\* that invoked waitForAvailability() later than a call still waiting in
\* the queue.
C3_StrictArrivalOrder ==
    strategy = "queue" =>
        \A i \in 1..Len(queue), j \in 1..Len(admissions) :
            Pos(arrivals, admissions[j]) < Pos(arrivals, queue[i].id)

\* C4 (as claimed): under the queue strategy a call suspended in the queue
\* is eventually admitted once canMakeRequest() holds.
C4_QueuedEventuallyAdmitted ==
    \A c \in Calls :
        (strategy = "queue" /\ InQueue(c) /\ canMakeRequest(Limiter, now)) ~> ~InQueue(c)

\* C5 (as claimed): once updateFromHeaders has processed headers whose
\* short-term usage equals the limit, canMakeRequest() is false for as
\* long as the short-term window has not slid past that response.
C5_ReportedFullUsageBlocks ==
    (/\ reported # Undefined
     /\ Val(reported).usage = Val(reported).limit
     /\ now - Val(reported).at < ShortTermWindow)
        => ~canMakeRequest(Limiter, now)

\* C16: under the queue strategy processQueue resolves the queued callers
\* in the order in which they were enqueued: the callers resolved so far
\* are the first ones enqueued, in that order, and the queue holds the
\* others, in that order.
C16_QueueDrainsFifo ==
    strategy = "queue" =>
        /\ Len(drained) <= Len(enqueued)
        /\ drained = SubSeq(enqueued, 1, Len(drained))
        /\ Ids(queue) = SubSeq(enqueued, Len(drained) + 1, Len(enqueued))

\* Three callers were enqueued one after the other while the limit was
\* used up, and processQueue has run with capacity available.
C16_Witness ==
    /\ strategy = "queue"
    /\ Len(enqueued) = 3
    /\ Len(drained) >= 1
    /\ drained[1] = enqueued[1]

\* Both windows hold only timestamps within their horizon of the clock.
WindowsPurged(short, daily, t) ==
    /\ \A i \in 1..Len(short) : short[i] >= t - ShortTermWindow
    /\ \A i \in 1..Len(daily) : daily[i] >= t - DailyWindow

LimitsFromHeaders ==
    IF reported = Undefined
    THEN shortTermLimit = DefaultShortTermLimit /\ dailyLimit = DefaultDailyLimit
    ELSE /\ shortTermLimit = Val(reported).limit
         /\ Val(reported).dailyLimit # Undefined => dailyLimit = Val(Val(reported).dailyLimit)

CanMakeRequestStep ==
    lastCan' # lastCan =>
        /\ WindowsPurged(shortTermRequests', dailyRequests', now')
        /\ Val(lastCan').result =
              (Len(shortTermRequests') < shortTermLimit' /\ Len(dailyRequests') < dailyLimit')

\* C17: canMakeRequest() purges both windows of the timestamps older than
\* their horizon and returns true exactly when the number of remaining
\* short-term timestamps is below the short-term limit and that of daily
\* timestamps below the daily limit, the limits being those last set from
\* response headers (600 and 30000 before any).
C17_CanMakeRequestPurgesAndCompares == []LimitsFromHeaders /\ [][CanMakeRequestStep]_vars

\* With the limit set to 1 and one request recorded, canMakeRequest() was
\* called after the window had slid past it and returned true.
C17_Witness ==
    /\ lastCan # Undefined /\ reported # Undefined
    /\ Val(lastCan).result
    /\ Val(lastCan).at > Val(reported).at + ShortTermWindow
    /\ shortTermLimit = 1
    /\ \E c \in Calls : mpc[c] = "queued"

InfoReadStep ==
    lastInfo' # lastInfo =>
        /\ WindowsPurged(shortTermRequests', dailyRequests', now')
        /\ Val(lastInfo').info.shortTermUsage = Len(shortTermRequests')
        /\ Val(lastInfo').info.dailyUsage = Len(dailyRequests')

\* The latest read came more than the short-term window after the latest
\* recording of a request.
ReadAfterWindow ==
    /\ lastInfo # Undefined /\ reported # Undefined
    /\ Val(lastInfo).at > Val(reported).at + ShortTermWindow

\* C18: after a read of the limiter each window holds only timestamps
\* >= now - window and the usage read is their number; a short-term usage
\* read later than shortTermWindow after the last recording is 0.
C18_ReadPurgesWindows ==
    /\ [](ReadAfterWindow => Val(lastInfo).info.shortTermUsage = 0)
    /\ [][InfoReadStep]_vars

\* Two requests were recorded at time 0 and the usage was read at
\* shortTermWindow + 1.
C18_Witness ==
    /\ ReadAfterWindow
    /\ Val(reported).at = 0
    /\ Val(lastInfo).at = ShortTermWindow + 1
    /\ Len(dailyRequests) = 2
    /\ shortTermRequests = <<>>

\* Call c has just called waitForAvailability() and was not let through.
JustBlocked(c) ==
    /\ arrivals' = Append(arrivals, c)
    /\ admissions' = admissions

\* What waitForAvailability() throws is a rate-limit-exceeded error that
\* carries the usage and the limit just read.
RateLimitErrorWithSnapshot(e, usage, limit) ==
    /\ e.name = "StravaRateLimitError"
    /\ e.usage = Some(usage)
    /\ e.limit = Some(limit)

ThrowStep ==
    \A c \in Calls :
        (strategy = "throw" /\ JustBlocked(c)) =>
            /\ mpc'[c] = "refused"
            /\ enqueued' = enqueued /\ pollAt' = pollAt
            /\ queue' = queue
            /\ shortTermRequests' = SelectSeq(shortTermRequests, LAMBDA x : x >= now - ShortTermWindow)
            /\ dailyRequests' = SelectSeq(dailyRequests, LAMBDA x : x >= now - DailyWindow)
            /\ shortTermLimit' = shortTermLimit /\ dailyLimit' = dailyLimit
            /\ refusedWith'[c] # Undefined
            /\ RateLimitErrorWithSnapshot(Val(refusedWith'[c]), Len(shortTermRequests'),
                                          shortTermLimit)

\* C20 (as claimed): under the throw strategy waitForAvailability() never
\* suspends or enqueues the caller: when canMakeRequest() does not hold it
\* fails at once with a rate-limit-exceeded error carrying the current
\* usage and limit, and it leaves the queue and the recorded timestamps
\* (apart from the purging of expired ones) unchanged.
C20_ThrowFailsAtOnce == [][ThrowStep]_vars

\* The number of times call c occurs in a sequence of call ids.
Count(seq, c) == Cardinality({i \in 1..Len(seq) : seq[i] = c})

\* Every attempt of a call has invoked waitForAvailability(), and the call
\* has issued no more fetches than waitForAvailability() has let it pass:
\* as many, but for the attempt that was let pass and has not resumed yet.
AdmittedBeforeFetch ==
    \A c \in Calls :
        /\ Count(arrivals, c) = attempt[c]
        /\ Count(admissions, c) <= Count(arrivals, c)
        /\ Count(admissions, c) = netCalls[c] + (IF mpc[c] = "admitted" THEN 1 ELSE 0)
        /\ mpc[c] \in {"fetching", "reading"} => netCalls[c] >= 1
        /\ mpc[c] \in {"queued", "polling", "refused"} => Count(admissions, c) < Count(arrivals, c)

\* waitForAvailability() lets call c pass in the step in which c calls it,
\* or later for a caller that was waiting in the queue or polling; a fetch
\* is issued only by a call that was let pass, one per admission.
FetchStep ==
    \A c \in Calls :
        /\ Count(admissions', c) # Count(admissions, c) =>
              /\ Count(admissions', c) = Count(admissions, c) + 1
              /\ mpc'[c] = "admitted"
              /\ netCalls'[c] = netCalls[c]
              /\ \/ arrivals' = Append(arrivals, c)
                 \/ arrivals' = arrivals /\ mpc[c] \in {"queued", "polling"}
        /\ netCalls'[c] # netCalls[c] =>
              /\ netCalls'[c] = netCalls[c] + 1
              /\ mpc[c] = "admitted" /\ mpc'[c] = "fetching"
              /\ admissions' = admissions /\ arrivals' = arrivals

\* C25: every attempt of a request, retries included, first obtains
\* admission from the rate limiter: a fetch is issued only once the
\* waitForAvailability() call of that very attempt has returned.
C25_AdmissionBeforeEveryAttempt == []AdmittedBeforeFetch /\ [][FetchStep]_vars

\* One call is in its second attempt, let through and fetching; the second
\* attempt of another call waits in the queue and has issued no fetch.
C25_Witness ==
    \E c, q \in Calls :
        /\ strategy = "queue"
        /\ attempt[c] = 2 /\ netCalls[c] = 2 /\ mpc[c] = "fetching"
        /\ attempt[q] = 2 /\ netCalls[q] = 1 /\ mpc[q] = "queued"

\* The calls the limiter has let pass and whose response is not yet
\* recorded.
InFlight == Cardinality({c \in Calls : mpc[c] \in {"admitted", "fetching"}})

WithinCeilings ==
    /\ InFlight + RateLimitInfo(Limiter, now).shortTermUsage <= shortTermLimit
    /\ InFlight + RateLimitInfo(Limiter, now).dailyUsage <= dailyLimit

\* C26 (as claimed): whenever waitForAvailability() or processQueue lets
\* callers pass, the requests let pass and not yet recorded, plus the
\* current usage, stay within shortTermLimit and within dailyLimit: with one
\* free slot no more than one caller is admitted.
C26_AdmissionWithinCeilings ==
    [][Len(admissions') > Len(admissions) => WithinCeilings']_vars

\* What follows the refusal of call c by waitForAvailability(): request()
\* raises, with no delay computed and no further admission check.
RefusalIsFinal ==
    \A c \in Calls :
        (strategy = "throw" /\ mpc[c] = "refused" /\ mpc'[c] # "refused") =>
            /\ rpc'[c] = "thrown"
            /\ delays'[c] = delays[c]
            /\ arrivals' = arrivals

\* C28 (as claimed): under the throw strategy a request the rate limiter
\* refuses fails without any retry: the refusal reaches the caller of
\* request() after zero backoff delays and zero further admission checks.
C28_RefusalIsNotRetried == [][RefusalIsFinal]_vars
====
